---- MODULE Spec2Model ----
(***************************************************************************)
(* Model of the McNaughton Neurolab legacy-format ingestion code:          *)
(*   cel_file.py         text spike/position records (CelFile)             *)
(*   rma_file.py         fixed-size binary rate maps (RmaFile)             *)
(*   convert_session.py  the session assembler (convert_session)           *)
(*   metadata.py         the table of the subject folders                  *)
(*                                                                         *)
(* Text is a sequence of one-character strings, so that splitting,         *)
(* stripping, prefix tests and integer parsing are computed, not assumed.  *)
(* A number is a record: a finite decimal fraction, an infinity or NaN.     *)
(* An optional value (int | None) is a set with at most one element.       *)
(***************************************************************************)
EXTENDS Integers, Sequences, FiniteSets, TLC

VARIABLES
    pc,             \* position in the running function
    raw_root,       \* files under 1_RAW_(original_files)/<subject>/TT*/, or None
    analyzed_root,  \* files under ANALYZED_(original_files)/<subject>/TT*/, or None
    subject_name,   \* convert_session: the subject_name argument
    stub_test,      \* convert_session: the stub_test argument
    tt_dirs,        \* convert_session: the tetrode directories, sorted
    all_cel_files,  \* convert_session: list of (tetrode_name, CelFile)
    warnings,       \* paths printed by the "WARNING: Failed to parse" handlers
    epochs,         \* nwbfile epochs table rows
    units,          \* nwbfile units table rows
    position,       \* the spatial series, or None
    rate_maps,      \* the rate_maps table rows, or None
    cel_lines,      \* read_cel_file: the lines of the file at `path`
    cel_result,     \* read_cel_file: the CelFile returned or the error raised
    time_str,       \* _parse_time_str: argument
    time_result,    \* _parse_time_str: return value
    exception,      \* the exception that escaped convert_session, or None
    file_name,      \* _parse_rma_filename, _infer_session_type: the file name
    name_result,    \* the task types and per-cell number derived from file_name
    rma_data,       \* read_rma_file: the bytes of the file at `path`
    rma_result      \* read_rma_file: the RmaFile returned or the error raised

vars == <<pc, raw_root, analyzed_root, subject_name, stub_test, tt_dirs, all_cel_files, warnings, epochs, units, position,
          rate_maps, cel_lines, cel_result, time_str, time_result, exception,
          file_name, name_result, rma_data, rma_result>>

----------------------------------------------------------------------------
(* Python built-ins on text                                                *)

\* A Python number (int or float) is a record.  A finite value is the decimal
\* fraction num/den in lowest terms, den a power of ten: 600 and 600.0 are the
\* same value Number(600, 1), 1.5 is Number(15, 10), and -0.0 is 0.
\* float("nan") and float("inf") are values of their own.  The values of the
\* model are those whose num and den fit 32 bits; each stands for its nearest float64.
Number(num, den) == [kind |-> "number", num |-> num, den |-> den]

\* float("nan")
NaN == [kind |-> "nan", num |-> 0, den |-> 1]

\* float("inf") for sign = 1, float("-inf") for sign = -1
Infinity(sign) == [kind |-> "inf", num |-> sign, den |-> 1]

\* the number with the value of the integer i
float(i) == Number(i, 1)

\* num/den in lowest terms
RECURSIVE reduced(_, _)
reduced(num, den) ==
    IF den > 1 /\ num % 10 = 0 THEN reduced(num \div 10, den \div 10)
    ELSE Number(num, den)

\* math.isnan / np.isnan
isnan(x) == x.kind = "nan"

\* a < b for numbers: False whenever one of them is NaN
float_lt(a, b) ==
    IF isnan(a) \/ isnan(b) THEN FALSE
    ELSE IF a.kind = "inf" THEN a.num < 0 /\ ~(b.kind = "inf" /\ b.num < 0)
    ELSE IF b.kind = "inf" THEN b.num > 0
    ELSE a.num * b.den < b.num * a.den

\* None, and a present optional value
None == {}

Some(v) == {v}

Only(opt) == CHOOSE v \in opt : TRUE

\* the outcome of a call: an exception raised, or a value returned
Raised(message) == [ok |-> FALSE, error |-> message]

Returned(value) == [ok |-> TRUE, value |-> value]

Min(S) == CHOOSE x \in S : \A y \in S : x <= y

Max(S) == CHOOSE x \in S : \A y \in S : x >= y

Digits == <<"0", "1", "2", "3", "4", "5", "6", "7", "8", "9">>

isdigit(c) == \E i \in 1..Len(Digits) : Digits[i] = c

DigitValue(c) == (CHOOSE i \in 1..Len(Digits) : Digits[i] = c) - 1

\* the characters str.strip() and str.split() treat as whitespace
Whitespace == {" ", "\t"}

\* the supported characters in code-point order (for str comparison)
Ascii ==
    <<"\t", " ", "#", "%", "+", "-", ".", "/",
      "0", "1", "2", "3", "4", "5", "6", "7", "8", "9", ":", "<", ">",
      "A", "B", "C", "D", "E", "F", "G", "H", "I", "J", "K", "L", "M",
      "N", "O", "P", "Q", "R", "S", "T", "U", "V", "W", "X", "Y", "Z", "_",
      "a", "b", "c", "d", "e", "f", "g", "h", "i", "j", "k", "l", "m",
      "n", "o", "p", "q", "r", "s", "t", "u", "v", "w", "x", "y", "z", "~">>

ord(c) == CHOOSE i \in 1..Len(Ascii) : Ascii[i] = c

LowerCase == <<"a", "b", "c", "d", "e", "f", "g", "h", "i", "j", "k", "l", "m",
               "n", "o", "p", "q", "r", "s", "t", "u", "v", "w", "x", "y", "z">>

UpperCase == <<"A", "B", "C", "D", "E", "F", "G", "H", "I", "J", "K", "L", "M",
               "N", "O", "P", "Q", "R", "S", "T", "U", "V", "W", "X", "Y", "Z">>

UpperChar(c) ==
    IF \E i \in 1..Len(LowerCase) : LowerCase[i] = c
    THEN UpperCase[CHOOSE i \in 1..Len(LowerCase) : LowerCase[i] = c]
    ELSE c

\* str.upper()
upper(s) == [i \in 1..Len(s) |-> UpperChar(s[i])]

\* str.lstrip(chars) / str.rstrip(chars) / str.strip() (whitespace)
RECURSIVE lstrip(_, _)
lstrip(s, chars) ==
    IF s = <<>> THEN <<>>
    ELSE IF s[1] \in chars THEN lstrip(Tail(s), chars)
    ELSE s

RECURSIVE rstrip(_, _)
rstrip(s, chars) ==
    IF s = <<>> THEN <<>>
    ELSE IF s[Len(s)] \in chars THEN rstrip(SubSeq(s, 1, Len(s) - 1), chars)
    ELSE s

strip(s) == rstrip(lstrip(s, Whitespace), Whitespace)

\* str.find(c) for one character, counted from 1; 0 when c is not in s
RECURSIVE find_from(_, _, _)
find_from(s, cs, i) ==
    IF i > Len(s) THEN 0
    ELSE IF s[i] \in cs THEN i
    ELSE find_from(s, cs, i + 1)

find(s, c) == find_from(s, {c}, 1)

\* str.startswith(prefix)
startswith(s, prefix) ==
    /\ Len(s) >= Len(prefix)
    /\ SubSeq(s, 1, Len(prefix)) = prefix

\* str.split(sep) for a one-character sep: every occurrence splits
RECURSIVE split_at(_, _, _)
split_at(s, sep, k) ==
    IF k = 0 THEN <<s>>
    ELSE <<SubSeq(s, 1, k - 1)>>
         \o split_at(SubSeq(s, k + 1, Len(s)), sep, find(SubSeq(s, k + 1, Len(s)), sep))

split(s, sep) == split_at(s, sep, find(s, sep))

\* str.split(sep, 1): at most one split, at the first occurrence
split1_at(s, k) ==
    IF k = 0 THEN <<s>>
    ELSE <<SubSeq(s, 1, k - 1), SubSeq(s, k + 1, Len(s))>>

split1(s, sep) == split1_at(s, find(s, sep))

\* str.split(): split on runs of whitespace, no empty tokens
RECURSIVE splitws(_)
first_token(t, k) ==
    IF t = <<>> THEN <<>>
    ELSE IF k = 0 THEN <<t>>
    ELSE <<SubSeq(t, 1, k - 1)>> \o splitws(SubSeq(t, k, Len(t)))

splitws(s) == first_token(lstrip(s, Whitespace), find_from(lstrip(s, Whitespace), Whitespace, 1))

\* the value of a run of decimal digits
RECURSIVE DecimalValue(_)
DecimalValue(ds) ==
    IF ds = <<>> THEN 0
    ELSE 10 * DecimalValue(SubSeq(ds, 1, Len(ds) - 1)) + DigitValue(ds[Len(ds)])

\* int(p) accepts surrounding whitespace, one sign, and decimal digits that may
\* be grouped by single underscores; anything else raises ValueError
unsigned(t) == IF t # <<>> /\ t[1] \in {"+", "-"} THEN Tail(t) ELSE t

bad_digits(u) ==
    \/ u = <<>>
    \/ \E i \in 1..Len(u) :
         /\ ~isdigit(u[i])
         /\ ~(/\ u[i] = "_"
              /\ i > 1 /\ i < Len(u)
              /\ isdigit(u[i - 1]) /\ isdigit(u[i + 1]))

IntRaises(p) == bad_digits(unsigned(strip(p)))

signed_value(t) ==
    IF t[1] = "-" THEN 0 - DecimalValue(SelectSeq(Tail(t), isdigit))
    ELSE DecimalValue(SelectSeq(t, isdigit))

int(p) == signed_value(strip(p))

----------------------------------------------------------------------------
(* cel_file.py: CelFile._parse_time_str                                    *)

\* parts = [int(p) for p in parts], or ValueError
ints_raise(parts) == \E i \in 1..Len(parts) : IntRaises(parts[i])

ints(parts) == [i \in 1..Len(parts) |-> int(parts[i])]

\* seconds_of with a fault: the minutes of an H:MM:SS string are not scaled
seconds_of_unscaled(parts) ==
    IF Len(parts) = 3 THEN float(parts[1] * 3600 + parts[2] + parts[3])
    ELSE IF Len(parts) = 2 THEN float(parts[1] * 60 + parts[2])
    ELSE NaN

seconds_of(parts) ==
    IF Len(parts) = 3 THEN float(parts[1] * 3600 + parts[2] * 60 + parts[3])
    ELSE IF Len(parts) = 2 THEN float(parts[1] * 60 + parts[2])
    ELSE NaN

parse_parts(parts) == IF ints_raise(parts) THEN NaN ELSE seconds_of(ints(parts))

_parse_time_str(s) ==
    IF s = <<>> THEN NaN ELSE parse_parts(split(strip(s), ":"))

----------------------------------------------------------------------------
(* cel_file.py: CelFile and read_cel_file                                  *)

\* text literals of the source, as character sequences
PERCENT == "%"

ENDHEADER == <<"%", "%", "E", "N", "D", "H", "E", "A", "D", "E", "R">>

FIELDS == <<"F", "I", "E", "L", "D", "S">>

TIME == <<"t", "i", "m", "e">>

POS_X == <<"p", "o", "s", "_", "x">>

POS_Y == <<"p", "o", "s", "_", "y">>

CLUSTER_KEY == <<"C", "l", "u", "s", "t", "e", "r">>

START_TIME_KEY == <<"S", "t", "a", "r", "t", " ", "t", "i", "m", "e">>

END_TIME_KEY == <<"E", "n", "d", " ", "t", "i", "m", "e">>

BL == <<"B", "L">>

ES == <<"E", "S">>

MC == <<"M", "C">>

UNKNOWN == <<"u", "n", "k", "n", "o", "w", "n">>

\* for i, line in enumerate(lines[:800])
ScanLimit == 800

Range(f) == {f[i] : i \in DOMAIN f}

\* dict.get(key, default)
get(d, key, default) == IF key \in DOMAIN d THEN d[key] ELSE default

\* d[key] = value
put(d, key, value) ==
    [k \in DOMAIN d \cup {key} |-> IF k = key THEN value ELSE d[k]]

\* re.match(r"^%?\s*fields\s*:", s, flags=re.IGNORECASE)
fields_then_colon(b) ==
    /\ Len(b) >= Len(FIELDS)
    /\ upper(SubSeq(b, 1, Len(FIELDS))) = FIELDS
    /\ startswith(lstrip(SubSeq(b, Len(FIELDS) + 1, Len(b)), Whitespace), <<":">>)

fields_re_match(s) ==
    fields_then_colon(lstrip(IF startswith(s, <<PERCENT>>) THEN Tail(s) ELSE s,
                             Whitespace))

\* Path.suffix and Path.stem of a file name; `dot` is the last "."
RECURSIVE rfind(_, _, _)
rfind(s, c, i) ==
    IF i < 1 THEN 0
    ELSE IF s[i] = c THEN i
    ELSE rfind(s, c, i - 1)

suffix_at(name, dot) ==
    IF dot = 0 \/ dot = 1 \/ dot = Len(name) THEN <<>>
    ELSE SubSeq(name, dot, Len(name))

suffix(name) == suffix_at(name, rfind(name, ".", Len(name)))

stem(name) == SubSeq(name, 1, Len(name) - Len(suffix(name)))

\* the maximal run of digits that starts at index a
RECURSIVE digit_run(_, _)
digit_run(value, a) ==
    IF a < 1 \/ a > Len(value) THEN <<>>
    ELSE IF ~isdigit(value[a]) THEN <<>>
    ELSE <<value[a]>> \o digit_run(value, a + 1)

\* first_digit_run with a fault: r"(\d)", the first digit alone
first_digit(value) ==
    SubSeq(value, find_from(value, Range(Digits), 1),
           IF find_from(value, Range(Digits), 1) = 0 THEN 0
           ELSE find_from(value, Range(Digits), 1))

\* re.search(r"(\d+)", value): the first maximal run of digits, or no match
first_digit_run(value) ==
    digit_run(value, find_from(value, Range(Digits), 1))

int_or_none(digits) == IF digits = <<>> THEN None ELSE Some(DecimalValue(digits))

\* _parse_cluster with a fault: a header without a usable Cluster value
\* gives cluster 0
_parse_cluster_zero(header) ==
    Some(DecimalValue(first_digit_run(get(header, CLUSTER_KEY, <<>>))))

_parse_cluster(header) ==
    IF get(header, CLUSTER_KEY, <<>>) = <<>> THEN None
    ELSE int_or_none(first_digit_run(get(header, CLUSTER_KEY, <<>>)))

type_of_prefix(name) ==
    IF startswith(name, BL) THEN BL
    ELSE IF startswith(name, ES) THEN ES
    ELSE IF startswith(name, MC) THEN MC
    ELSE UNKNOWN

_infer_session_type(path) == type_of_prefix(upper(stem(path)))

\* the dataclass constructor with __post_init__
CelFile(path, fields, header, data) ==
    [path |-> path, fields |-> fields, header |-> header, data |-> data,
     cluster |-> _parse_cluster(header),
     session_type |-> _infer_session_type(path),
     start_time_sec |-> _parse_time_str(get(header, START_TIME_KEY, <<>>)),
     end_time_sec |-> _parse_time_str(get(header, END_TIME_KEY, <<>>)),
     has_position |-> POS_X \in Range(fields) /\ POS_Y \in Range(fields)]

\* The strings pandas reads as missing (its default na_values; "#N/A N/A" is
\* no token).  The empty string stands for the cell a short row leaves unfilled.
NAValues ==
    {<<>>, <<"#", "N", "/", "A">>, <<"#", "N", "A">>, <<"-", "1", ".", "#", "I", "N", "D">>, <<"-", "1", ".", "#", "Q", "N", "A", "N">>, <<"-", "N", "a", "N">>, <<"-", "n", "a", "n">>,
     <<"1", ".", "#", "I", "N", "D">>, <<"1", ".", "#", "Q", "N", "A", "N">>, <<"<", "N", "A", ">">>, <<"N", "/", "A">>, <<"N", "A">>, <<"N", "U", "L", "L">>, <<"N", "a", "N">>,
     <<"N", "o", "n", "e">>, <<"n", "/", "a">>, <<"n", "a", "n">>, <<"n", "u", "l", "l">>}

\* the words read as booleans (the parser's default true and false values)
TrueValues == {<<"T", "r", "u", "e">>, <<"T", "R", "U", "E">>, <<"t", "r", "u", "e">>}

FalseValues == {<<"F", "a", "l", "s", "e">>, <<"F", "A", "L", "S", "E">>, <<"f", "a", "l", "s", "e">>}

\* the exponent part of a literal: "e" or "E", an optional sign, and digits up
\* to the end of u.  Its value, 0 when nothing stands at index p, and None
\* when what stands there is no exponent part.
exponent_of(u, p) ==
    IF p > Len(u) THEN Some(0)
    ELSE IF u[p] \notin {"e", "E"} THEN None
    ELSE LET q == IF p < Len(u) /\ u[p + 1] \in {"+", "-"} THEN p + 2 ELSE p + 1
         IN  IF q > Len(u) \/ Len(digit_run(u, q)) # Len(u) - q + 1 THEN None
             ELSE IF u[p + 1] = "-" THEN Some(0 - DecimalValue(digit_run(u, q)))
             ELSE Some(DecimalValue(digit_run(u, q)))

\* m * 10^e
scaled(m, e) == IF e >= 0 THEN Number(m * (10 ^ e), 1) ELSE reduced(m, 10 ^ (0 - e))

\* the unsigned decimal literal u: the digits d1, "." and the digits d2, the
\* exponent; None when u is no such literal
xstrtod(u) ==
    LET d1 == digit_run(u, 1)
        has_point == Len(d1) < Len(u) /\ u[Len(d1) + 1] = "."
        d2 == IF has_point THEN digit_run(u, Len(d1) + 2) ELSE <<>>
        exponent == exponent_of(u, Len(d1) + (IF has_point THEN 1 + Len(d2) ELSE 0) + 1)
    IN  IF Len(d1) + Len(d2) = 0 \/ exponent = None THEN None
        ELSE Some(scaled(DecimalValue(d1 \o d2), Only(exponent) - Len(d2)))

\* the number a string reads as: a decimal literal, or (in any case, with an
\* optional sign) inf or infinity; None for any other string, the spellings
\* of nan included
floatify(token) ==
    LET value == IF upper(unsigned(token)) \in {<<"I", "N", "F">>, <<"I", "N", "F", "I", "N", "I", "T", "Y">>}
                 THEN Some(Infinity(1))
                 ELSE xstrtod(unsigned(token))
    IN  IF token = <<>> \/ value = None THEN None
        ELSE IF token[1] = "-"
             THEN Some([Only(value) EXCEPT !.num = 0 - Only(value).num])
        ELSE value

\* A cell of the DataFrame is a number (NaN for a missing value), a bool or a
\* str, as the parser's type inference leaves it.
Text(token) == [kind |-> "str", text |-> token]

Bool(b) == [kind |-> "bool", num |-> IF b THEN 1 ELSE 0, den |-> 1]

\* pandas.isna of a cell
isna(value) == value.kind = "nan"

\* the type inferred for a column from its tokens: numbers when every token
\* that is not a missing-value string reads as a number, else booleans when
\* every such token is a boolean word, else the strings themselves
dtype(tokens) ==
    IF \A i \in 1..Len(tokens) :
          tokens[i] \in NAValues \/ floatify(tokens[i]) # None
    THEN "float64"
    ELSE IF \A i \in 1..Len(tokens) :
               tokens[i] \in NAValues \cup TrueValues \cup FalseValues
    THEN "bool"
    ELSE "object"

cell(token, type) ==
    IF token \in NAValues THEN NaN
    ELSE IF type = "float64" THEN Only(floatify(token))
    ELSE IF type = "bool" THEN Bool(token \in TrueValues)
    ELSE Text(token)

\* pd.to_numeric(series, errors="coerce").to_numpy(dtype=np.float64), for one
\* cell of the series
to_numeric(value) ==
    IF value.kind = "str"
    THEN IF floatify(value.text) = None THEN NaN ELSE Only(floatify(value.text))
    ELSE IF value.kind = "bool" THEN float(value.num)
    ELSE value

\* the rows of tokens read_csv sees: the lines after the skipped ones,
\* stripped and split on white space, blank lines left out
RECURSIVE token_rows(_, _)
token_rows(lines, skiprows) ==
    IF skiprows >= Len(lines) THEN <<>>
    ELSE IF strip(lines[skiprows + 1]) = <<>> THEN token_rows(lines, skiprows + 1)
    ELSE <<splitws(lines[skiprows + 1])>> \o token_rows(lines, skiprows + 1)

\* a short row is padded
token_at(tokens, j) == IF j <= Len(tokens) THEN tokens[j] ELSE <<>>

DuplicateNamesError == "Duplicate names are not allowed."

EmptyDataError == "No columns to parse from file"

ParserError == "Expected fewer fields"

\* the column labels: the names, or 0, 1, ... when the list of names is empty
columns_of(rows, names) ==
    IF names = <<>> THEN [j \in 1..Len(rows[1]) |-> j - 1] ELSE names

\* the leading tokens of each row that are taken as the index: the first row's
\* tokens in excess of the names
implicit_first_cols(rows, names) ==
    IF rows = <<>> \/ names = <<>> \/ Len(rows[1]) <= Len(names) THEN 0
    ELSE Len(rows[1]) - Len(names)

\* the type of each column, inferred from the tokens of all rows
dtypes(rows, columns, k) ==
    [j \in 1..Len(columns) |->
        dtype([i \in 1..Len(rows) |-> token_at(rows[i], k + j)] \o <<>>)] \o <<>>

frame_row(tokens, columns, k, types) ==
    [f \in Range(columns) |->
        cell(token_at(tokens, k + (CHOOSE j \in 1..Len(columns) : columns[j] = f)),
             types[CHOOSE j \in 1..Len(columns) : columns[j] = f])]

frame(rows, columns, k, types) ==
    [i \in 1..Len(rows) |-> frame_row(rows[i], columns, k, types)] \o <<>>

parsed_rows(rows, names, k) ==
    IF names = <<>> /\ rows = <<>> THEN Raised(EmptyDataError)
    ELSE IF \E i \in 1..Len(rows) : Len(rows[i]) > Len(columns_of(rows, names)) + k
         THEN Raised(ParserError)
    ELSE Returned(frame(rows, columns_of(rows, names), k,
                        dtypes(rows, columns_of(rows, names), k)))

\* pd.read_csv(path, sep=r"\s+", engine="python", skiprows=data_start, names=fields)
read_csv(lines, skiprows, names) ==
    IF \E i, j \in 1..Len(names) : i < j /\ names[i] = names[j]
    THEN Raised(DuplicateNamesError)
    ELSE parsed_rows(token_rows(lines, skiprows), names,
                     implicit_first_cols(token_rows(lines, skiprows), names))

\* DataFrame.dropna(how="all")
dropna(rows) ==
    SelectSeq(rows, LAMBDA r : \E f \in DOMAIN r : ~isna(r[f]))

\* the state of the header scan: fields, header_kv, endheader_idx
ScanStart == [fields |-> None, header_kv |-> <<>>, endheader_idx |-> None]

\* k, v = kv.split(":", 1); header_kv[k.strip()] = v.strip()
put_kv(header_kv, kv) == put(header_kv, strip(kv[1]), strip(kv[2]))

\* the body of the scan loop for the stripped line s at (0-based) index i
scan_stripped(st, i, s, is_fields) ==
    [header_kv |->
        IF startswith(s, <<PERCENT>>) /\ find(s, ":") # 0 /\ ~is_fields
        THEN put_kv(st.header_kv, split1(strip(lstrip(s, {PERCENT})), ":"))
        ELSE st.header_kv,
     fields |->
        IF is_fields THEN Some(splitws(strip(split1(s, ":")[2]))) ELSE st.fields,
     endheader_idx |->
        IF s = ENDHEADER THEN Some(i) ELSE st.endheader_idx]

ScanLine(st, i, line) == scan_stripped(st, i, strip(line), fields_re_match(strip(line)))

\* for i, line in enumerate(lines[:800]): ... break at the sentinel.
\* The loop over the indices lo..hi, in order, stopping once the sentinel has
\* been seen; the range is halved so that the evaluation depth stays small.
RECURSIVE ScanRange(_, _, _, _)
ScanRange(lines, lo, hi, st) ==
    IF lo > hi \/ st.endheader_idx # None THEN st
    ELSE IF lo = hi THEN ScanLine(st, lo, lines[lo + 1])
    ELSE LET mid == (lo + hi) \div 2
         IN  ScanRange(lines, mid + 1, hi, ScanRange(lines, lo, mid, st))

\* Scan with a fault: the whole file is scanned
Scan_unbounded(lines) == ScanRange(lines, 0, Len(lines) - 1, ScanStart)

Scan(lines) == ScanRange(lines, 0, Min({Len(lines), ScanLimit}) - 1, ScanStart)

NoFieldsError == "No Fields line found"

NoEndHeaderError == "No %%ENDHEADER found"

\* df = pd.read_csv(...).dropna(how="all"); return CelFile(...): an error of
\* read_csv is raised by read_cel_file
constructed(path, fields, header_kv, df) ==
    IF ~df.ok THEN df
    ELSE Returned(CelFile(path, fields, header_kv, dropna(df.value)))

\* the part of read_cel_file after the scan loop
after_scan(path, lines, st) ==
    IF st.fields = None THEN Raised(NoFieldsError)
    ELSE IF st.endheader_idx = None THEN Raised(NoEndHeaderError)
    ELSE constructed(path, Only(st.fields), st.header_kv,
                     read_csv(lines, Only(st.endheader_idx) + 1, Only(st.fields)))

read_cel_file(path, lines) == after_scan(path, lines, Scan(lines))

\* CelFile.spike_times / pos_x / pos_y: a column coerced to float64
KeyErrorTime == "KeyError: 'time'"

Column(cel, name) == [i \in 1..Len(cel.data) |-> to_numeric(cel.data[i][name])]

spike_times(cel) == Column(cel, TIME)

\* None when the record has no position columns
pos_x(cel) == IF ~cel.has_position THEN None ELSE Column(cel, POS_X)

pos_y(cel) == IF ~cel.has_position THEN None ELSE Column(cel, POS_Y)

----------------------------------------------------------------------------
(* rma_file.py                                                             *)

RMA_FILE_SIZE == 32768

RMA_SUFFIX == <<".", "R", "M", "A">>

CELL_TAG == <<"C", "E", "L", "L", "~">>

TT == <<"T", "T">>

endswith(s, tail) ==
    /\ Len(s) >= Len(tail)
    /\ SubSeq(s, Len(s) - Len(tail) + 1, Len(s)) = tail

\* re.search(r"CELL~(\d+)", upper): the digits after the first CELL~ that is
\* followed by a digit, or no match
RECURSIVE cell_match(_, _)
cell_match(text, i) ==
    IF i + Len(CELL_TAG) > Len(text) THEN <<>>
    ELSE IF /\ SubSeq(text, i, i + Len(CELL_TAG) - 1) = CELL_TAG
            /\ isdigit(text[i + Len(CELL_TAG)])
         THEN digit_run(text, i + Len(CELL_TAG))
    ELSE cell_match(text, i + 1)

type_of_rma_prefix(up) ==
    IF startswith(up, ES) THEN ES
    ELSE IF startswith(up, MC) THEN MC
    ELSE IF startswith(up, BL) THEN BL
    ELSE UNKNOWN

cell_and_type(up) == <<type_of_rma_prefix(up), int_or_none(cell_match(up, 1))>>

\* _parse_rma_filename with a fault: the name is not upper-cased
_parse_rma_filename_cased(name) == cell_and_type(name)

_parse_rma_filename(name) == cell_and_type(upper(name))

\* A binary file is [name, size, content]: its length in bytes and a tag that
\* identifies its byte content; the two matrices are functions of the content.
RmaFile(file, parsed_name) ==
    [path |-> file.name,
     rate_map |-> <<"rate_map", file.content>>,
     occupancy_map |-> <<"occupancy_map", file.content>>,
     session_type |-> parsed_name[1],
     cell_number |-> parsed_name[2]]

read_rma_file(file) ==
    IF file.size # RMA_FILE_SIZE THEN Raised("expected 32768 bytes")
    ELSE Returned(RmaFile(file, _parse_rma_filename(file.name)))

\* The same function on the bytes themselves.  A float32 is kept as the three
\* fields of its IEEE 754 encoding, an int32 as its value.
MAP_SIDE == 64

N_PIXELS == MAP_SIDE * MAP_SIDE

\* one element of dtype ">f4": the first byte is the most significant
f4(b0, b1, b2, b3) ==
    [sign |-> b0 \div 128,
     exponent |-> (b0 % 128) * 2 + b1 \div 128,
     fraction |-> (b1 % 128) * 65536 + b2 * 256 + b3]

\* one element of dtype ">i4", in two's complement
i4(b0, b1, b2, b3) ==
    (IF b0 >= 128 THEN b0 - 256 ELSE b0) * 16777216 + b1 * 65536 + b2 * 256 + b3

\* np.frombuffer with a fault: dtype "<f4", the first byte the least significant
frombuffer_f4_native(data, count, offset) ==
    [k \in 1..count |->
        f4(data[offset + 4 * k], data[offset + 4 * k - 1],
           data[offset + 4 * k - 2], data[offset + 4 * k - 3])] \o <<>>

\* np.frombuffer(data, dtype=">f4", count=count, offset=offset)
frombuffer_f4(data, count, offset) ==
    [k \in 1..count |->
        f4(data[offset + 4 * k - 3], data[offset + 4 * k - 2],
           data[offset + 4 * k - 1], data[offset + 4 * k])] \o <<>>

\* np.frombuffer(data, dtype=">i4", count=count, offset=offset)
frombuffer_i4(data, count, offset) ==
    [k \in 1..count |->
        i4(data[offset + 4 * k - 3], data[offset + 4 * k - 2],
           data[offset + 4 * k - 1], data[offset + 4 * k])] \o <<>>

\* .reshape(MAP_SHAPE): row-major
reshape(flat) ==
    [r \in 1..MAP_SIDE |-> [c \in 1..MAP_SIDE |-> flat[MAP_SIDE * (r - 1) + c]]]

read_rma_file_bytes(name, data) ==
    IF Len(data) # RMA_FILE_SIZE THEN Raised("expected 32768 bytes")
    ELSE Returned([path |-> name,
                   rate_map |-> reshape(frombuffer_f4(data, N_PIXELS, 0)),
                   occupancy_map |-> reshape(frombuffer_i4(data, N_PIXELS, N_PIXELS * 4)),
                   session_type |-> _parse_rma_filename(name)[1],
                   cell_number |-> _parse_rma_filename(name)[2]])

----------------------------------------------------------------------------
(* Python sorting and comparison                                           *)

\* a < b for str: lexicographic by code point
RECURSIVE str_lt(_, _)
str_lt(a, b) ==
    IF b = <<>> THEN FALSE
    ELSE IF a = <<>> THEN TRUE
    ELSE IF a[1] # b[1] THEN ord(a[1]) < ord(b[1])
    ELSE str_lt(Tail(a), Tail(b))

\* Path.iterdir(): the entries of a directory in the order the file system
\* yields them, which the code does not control: any order of the entries
listings(entries) ==
    {order \in [1..Cardinality(entries) -> entries] :
        \A i, j \in 1..Cardinality(entries) : i # j => order[i] # order[j]}

\* sorted() and list.sort(): a stable sort; lt[i, j] tells whether the sort
\* key of s[i] is less than that of s[j].  An element is preceded by those
\* with a smaller key and by the earlier elements with an equal key.
sorted(s, lt) ==
    LET n == Len(s)
        rank(i) == 1 + Cardinality({j \in 1..n :
                        \/ lt[j, i]
                        \/ j < i /\ ~lt[i, j]})
    IN  [k \in 1..n |-> s[CHOOSE i \in 1..n : rank(i) = k]] \o <<>>

\* the order of np.sort and np.unique: ascending, NaN last
np_lt(a, b) == ~isnan(a) /\ (isnan(b) \/ float_lt(a, b))

sorted_floats(arr) == sorted(arr, [i, j \in 1..Len(arr) |-> np_lt(arr[i], arr[j])])

\* key=lambda p: int(p.name[2:])
tt_key(name) == int(SubSeq(name, 3, Len(name)))

tt_dir_lt(a, b) == tt_key(a) < tt_key(b)

ValueErrorInt == "ValueError: invalid literal for int() with base 10"

\* sorted(dirs, key=lambda p: int(p.name[2:])): int() raises ValueError for a
\* name that does not continue as an integer after its first two characters
sorted_dirs(dirs) ==
    IF \E i \in 1..Len(dirs) : IntRaises(SubSeq(dirs[i], 3, Len(dirs[i])))
    THEN Raised(ValueErrorInt)
    ELSE Returned(sorted(dirs, [i, j \in 1..Len(dirs) |-> tt_dir_lt(dirs[i], dirs[j])]))

file_lt(a, b) == str_lt(a.name, b.name)

\* sorted(paths) for the files of one directory: their names are distinct, so
\* the result is the same for every order in which iterdir() yields them
sorted_paths(files) ==
    [k \in 1..Cardinality(files) |->
        CHOOSE f \in files : Cardinality({g \in files : file_lt(g, f)}) = k - 1] \o <<>>

RECURSIVE concat(_)
concat(ss) == IF ss = <<>> THEN <<>> ELSE ss[1] \o concat(Tail(ss))

\* sorted([p for p in root.iterdir() if p.is_dir() and p.name.upper().startswith("TT")],
\*        key=lambda p: int(p.name[2:])), for the entries as listed
tt_dirs_of(listed) ==
    sorted_dirs(SelectSeq(listed, LAMBDA name : startswith(upper(name), TT)))

----------------------------------------------------------------------------
(* convert_session.py                                                      *)

CEL_SUFFIXES == {<<".", "C", "E", "L">>, <<".", "C", "E", "L", "L">>}

\* the elements of s at the indices in I, in index order
at_indices(s, I) ==
    [k \in 1..Cardinality(I) |->
        s[CHOOSE i \in I : Cardinality({j \in I : j < i}) = k - 1]] \o <<>>

\* the keys of a dict filled by d[k] = ... for k in ks: each key once, in
\* first-insertion order
dict_keys(ks) ==
    at_indices(ks, {i \in 1..Len(ks) : \A j \in 1..(i - 1) : ks[j] # ks[i]})

\* sorted(p for p in tt_dir.iterdir() if p.is_file() and p.suffix.upper() in (".CEL", ".CELL"))
cel_paths(files) ==
    sorted_paths({f \in files : upper(suffix(f.name)) \in CEL_SUFFIXES})

\* if stub_test: paths = paths[:2]
stub_paths(paths, stub) ==
    IF stub /\ Len(paths) > 2 THEN SubSeq(paths, 1, 2) ELSE paths

\* the paths of one tetrode directory, each with the tetrode name
in_dir(tt_name, paths) ==
    [j \in 1..Len(paths) |-> [tt_name |-> tt_name, file |-> paths[j]]] \o <<>>

\* the files the parse loop visits, in order: (tt_name, file)
discovered_cel(root, dirs, stub) ==
    concat([i \in 1..Len(dirs) |->
        in_dir(dirs[i], stub_paths(cel_paths(root[dirs[i]]), stub))])

\* try: cel = read_cel_file(cel_path) ... except Exception: print WARNING
attempt(d) ==
    [tt_name |-> d.tt_name, file |-> d.file,
     result |-> read_cel_file(d.file.name, d.file.lines)]

attempts(found) == [i \in 1..Len(found) |-> attempt(found[i])] \o <<>>

parse_attempts(root, dirs, stub) == attempts(discovered_cel(root, dirs, stub))

appended(ok) == [i \in 1..Len(ok) |-> <<ok[i].tt_name, ok[i].result.value>>] \o <<>>

parsed_cel_files(att) == appended(SelectSeq(att, LAMBDA a : a.result.ok))

warned(bad) == [i \in 1..Len(bad) |-> <<bad[i].tt_name, bad[i].file.name>>] \o <<>>

failed_cel_paths(att) == warned(SelectSeq(att, LAMBDA a : ~a.result.ok))

\* --- Build epochs from unique (start_time, end_time, session_type) ---
epoch_key(cel) == <<cel.start_time_sec, cel.end_time_sec, cel.session_type>>

epoch_lt(a, b) ==
    \/ float_lt(a[1], b[1])
    \/ a[1] = b[1] /\ float_lt(a[2], b[2])
    \/ a[1] = b[1] /\ a[2] = b[2] /\ str_lt(a[3], b[3])

epoch_keys(cels) == [i \in 1..Len(cels) |-> epoch_key(cels[i][2])] \o <<>>

\* epoch_set with a fault: one epoch per record, no uniqueness set
epoch_list(cels) ==
    SelectSeq(epoch_keys(cels), LAMBDA key : ~isnan(key[1]) /\ ~isnan(key[2]))

\* if not np.isnan(key[0]) and not np.isnan(key[1]): epoch_set[key] = None
epoch_set(cels) ==
    dict_keys(SelectSeq(epoch_keys(cels), LAMBDA key : ~isnan(key[1]) /\ ~isnan(key[2])))

intervals(keys) ==
    [i \in 1..Len(keys) |->
       [start_time |-> keys[i][1], stop_time |-> keys[i][2],
        session_type |-> keys[i][3]]] \o <<>>

sorted_epochs(keys) ==
    sorted(keys, [i, j \in 1..Len(keys) |-> epoch_lt(keys[i], keys[j])])

epoch_rows(cels) == intervals(sorted_epochs(epoch_set(cels)))

\* --- Add units (merge CEL files by tetrode + cluster) ---
cluster_id(cel) == IF cel.cluster # None THEN Only(cel.cluster) ELSE -1

\* spike_times[~np.isnan(spike_times)]
valid_spike_times(cel) == SelectSeq(spike_times(cel), LAMBDA t : ~isnan(t))

\* contribution with a fault: a record without epoch brings no spike times
contribution_timed(tc) ==
    [key |-> <<tc[1], cluster_id(tc[2])>>,
     times |-> IF isnan(tc[2].start_time_sec) \/ isnan(tc[2].end_time_sec)
               THEN <<>> ELSE valid_spike_times(tc[2])]

\* what one pass of the grouping loop computes: the key and the masked times
contribution(tc) ==
    [key |-> <<tc[1], cluster_id(tc[2])>>, times |-> valid_spike_times(tc[2])]

contributions(cels) == [i \in 1..Len(cels) |-> contribution(cels[i])] \o <<>>

unit_key_lt(a, b) ==
    \/ str_lt(a[1], b[1])
    \/ a[1] = b[1] /\ a[2] < b[2]

sorted_unit_keys(keys) ==
    sorted(keys, [i, j \in 1..Len(keys) |-> unit_key_lt(keys[i], keys[j])])

keys_of(contribs) == [i \in 1..Len(contribs) |-> contribs[i].key] \o <<>>

times_of(contribs) == [i \in 1..Len(contribs) |-> contribs[i].times] \o <<>>

\* unit_spikes with a fault: the arrays without spike time are appended too
unit_spikes_all(contribs) == contribs

\* if len(spike_times) > 0: unit_spikes[(tt_name, cluster_id)].append(spike_times)
unit_spikes(contribs) == SelectSeq(contribs, LAMBDA c : Len(c.times) > 0)

\* np.concatenate(unit_spikes[key])
concatenated(appends, key) ==
    concat(times_of(SelectSeq(appends, LAMBDA c : c.key = key)))

\* np_sort with a fault: equal timestamps are merged
np_unique(arr) == sorted_floats(dict_keys(arr))

\* np.sort
np_sort(arr) == sorted_floats(arr)

add_units(appends, keys) ==
    [i \in 1..Len(keys) |->
       [spike_times |-> np_sort(concatenated(appends, keys[i])),
        tetrode |-> keys[i][1], cluster_id |-> keys[i][2]]] \o <<>>

merged_units(appends) ==
    add_units(appends, sorted_unit_keys(dict_keys(keys_of(appends))))

unit_rows(cels) == merged_units(unit_spikes(contributions(cels)))

\* cel.spike_times raises KeyError when the DataFrame has no "time" column
units_raise(cels) == \E i \in 1..Len(cels) : TIME \notin Range(cels[i][2].fields)

\* --- _add_position_data ---
zip3(a, b, c) == [i \in 1..Len(a) |-> <<a[i], b[i], c[i]>>] \o <<>>

\* mask = ~(np.isnan(times) | np.isnan(x) | np.isnan(y)); zip(times[mask], ...)
masked(triples) ==
    SelectSeq(triples, LAMBDA t : ~(isnan(t[1]) \/ isnan(t[2]) \/ isnan(t[3])))

masked_triples(cel) == masked(zip3(spike_times(cel), pos_x(cel), pos_y(cel)))

pooled(pos) == concat([i \in 1..Len(pos) |-> masked_triples(pos[i][2])])

time_pos_pairs(cels) == pooled(SelectSeq(cels, LAMBDA tc : tc[2].has_position))

triple_lt(a, b) == float_lt(a[1], b[1])

\* time_pos_pairs.sort(key=lambda tup: tup[0])
sorted_by_time(pairs) ==
    sorted(pairs, [i, j \in 1..Len(pairs) |-> triple_lt(pairs[i], pairs[j])])

first_index(arr, v) == find_from(arr, {v}, 1)

\* first_indices with a fault: the last occurrence of each distinct value
last_indices(arr, values) ==
    [k \in 1..Len(values) |-> Max({i \in 1..Len(arr) : arr[i] = values[k]})] \o <<>>

first_indices(arr, values) == [k \in 1..Len(values) |-> first_index(arr, values[k])] \o <<>>

\* np.unique(times_arr, return_index=True)[1]: for each distinct value, in
\* ascending order, the index of its first occurrence
unique_idx(times_arr) ==
    first_indices(times_arr, sorted_floats(dict_keys(times_arr)))

times_of_pairs(pairs) == [i \in 1..Len(pairs) |-> pairs[i][1]] \o <<>>

taken(pairs, idx) == [k \in 1..Len(idx) |-> pairs[idx[k]]] \o <<>>

deduplicated(pairs) == taken(pairs, unique_idx(times_of_pairs(pairs)))

series(pairs) ==
    IF pairs = <<>> THEN None ELSE Some(deduplicated(sorted_by_time(pairs)))

\* the spatial series (rows of timestamp, x, y), or None when nothing is added
_add_position_data(cels) == series(time_pos_pairs(cels))

\* --- _add_rate_maps ---
\* sorted(tt_dir.glob("*.RMA"))
rma_paths(files) ==
    sorted_paths({f \in files : endswith(f.name, RMA_SUFFIX)})

\* the files the loop of _add_rate_maps visits, in order: (tt_name, file)
discovered_rma(root, dirs, stub) ==
    concat([i \in 1..Len(dirs) |->
        in_dir(dirs[i], stub_paths(rma_paths(root[dirs[i]]), stub))])

rma_attempt(d) == [tt_name |-> d.tt_name, file |-> d.file, result |-> read_rma_file(d.file)]

rma_attempts(found) == [i \in 1..Len(found) |-> rma_attempt(found[i])] \o <<>>

rma_row(tt_name, name, rma) ==
    [tetrode |-> tt_name, source_file |-> name,
     session_type |-> rma.session_type,
     cell_number |-> IF rma.cell_number # None THEN Only(rma.cell_number) ELSE -1,
     rate_map |-> rma.rate_map, occupancy_map |-> rma.occupancy_map]

rows_of(ok) ==
    [i \in 1..Len(ok) |-> rma_row(ok[i].tt_name, ok[i].file.name, ok[i].result.value)]
    \o <<>>

\* rma_rows with a fault: one row per (session_type, cell_number)
rma_rows_unique(att) ==
    rows_of(at_indices(att, {i \in 1..Len(att) :
        /\ att[i].result.ok
        /\ \A j \in 1..(i - 1) :
             ~(/\ att[j].result.ok
               /\ att[j].result.value.session_type = att[i].result.value.session_type
               /\ att[j].result.value.cell_number = att[i].result.value.cell_number)}))

rma_rows(att) == rows_of(SelectSeq(att, LAMBDA a : a.result.ok))

failed_rma_paths(att) == warned(SelectSeq(att, LAMBDA a : ~a.result.ok))

\* if not rows: return
table(rows) == IF rows = <<>> THEN None ELSE Some(rows)

\* the rate_maps table rows, or None when no table is added
_add_rate_maps(att) == table(rma_rows(att))

----------------------------------------------------------------------------
(* metadata.py                                                             *)

\* the subject folders, each with its rat identity
SUBJECT_SESSION_MAP ==
    "FD4RAT1" :> "Rat1" @@ "FD4RAT2" :> "Rat2" @@ "FD4RAT3" :> "Rat3"
    @@ "FD9RAT1" :> "Rat1" @@ "FD9RAT2" :> "Rat2"
    @@ "PREFLI~1" :> "Rat1" @@ "PREFLI~2" :> "Rat2" @@ "PREFLI~3" :> "Rat3"

\* info = SUBJECT_SESSION_MAP[subject_folder]: a folder that is no key of the
\* table raises KeyError(subject_folder)
get_session_metadata(subject_folder) ==
    IF subject_folder \in DOMAIN SUBJECT_SESSION_MAP
    THEN Returned([subject_folder |-> subject_folder,
                   rat_id |-> SUBJECT_SESSION_MAP[subject_folder]])
    ELSE Raised("KeyError: '" \o subject_folder \o "'")

----------------------------------------------------------------------------
(* The session: the files convert_session finds, and its steps             *)

MaxCelFiles == 3

MaxRmaFiles == 3

\* the most data rows of a text file of the sessions
MaxSessionRows == 5

TetrodeDirs == {<<"T", "T", "2">>, <<"T", "T", "1", "0">>}

\* a directory of raw_root that is not a tetrode directory
OtherDir == <<"E", "E", "G">>

CelNames == {<<"B", "L", "1", ".", "C", "E", "L">>, <<"E", "S", "1", ".", "c", "e", "l", "l">>}

\* a file of a tetrode directory that is neither a .CEL nor a .RMA file
NotesFile == [name |-> <<"N", "O", "T", "E", "S", ".", "T", "X", "T">>, lines |-> <<<<"%", " ", "F", "i", "e", "l", "d", "s", ":", " ", "t", "i", "m", "e">>>>, size |-> 14, content |-> 0]

\* Text files, as the lines read from them.
\* cluster 3, epoch 0..600, spike times 1, 3
CelA ==
    <<<<"%", " ", "C", "l", "u", "s", "t", "e", "r", ":", " ", "3">>, <<"%", " ", "S", "t", "a", "r", "t", " ", "t", "i", "m", "e", ":", " ", "0", ":", "0", "0">>, <<"%", " ", "E", "n", "d", " ", "t", "i", "m", "e", ":", " ", "1", "0", ":", "0", "0">>,
      <<"%", " ", "F", "i", "e", "l", "d", "s", ":", " ", "t", "i", "m", "e">>, <<"%", "%", "E", "N", "D", "H", "E", "A", "D", "E", "R">>, <<"1">>, <<"3">>>>

\* cluster 3, epoch 0..600, spike times 3, 2
CelB ==
    <<<<"%", " ", "C", "l", "u", "s", "t", "e", "r", ":", " ", "3">>, <<"%", " ", "S", "t", "a", "r", "t", " ", "t", "i", "m", "e", ":", " ", "0", ":", "0", "0">>, <<"%", " ", "E", "n", "d", " ", "t", "i", "m", "e", ":", " ", "1", "0", ":", "0", "0">>,
      <<"%", " ", "F", "i", "e", "l", "d", "s", ":", " ", "t", "i", "m", "e">>, <<"%", "%", "E", "N", "D", "H", "E", "A", "D", "E", "R">>, <<"3">>, <<"2">>>>

\* no cluster tag, epoch 600..1200, position-bearing, time 5 twice
CelC ==
    <<<<"%", " ", "S", "t", "a", "r", "t", " ", "t", "i", "m", "e", ":", " ", "1", "0", ":", "0", "0">>, <<"%", " ", "E", "n", "d", " ", "t", "i", "m", "e", ":", " ", "0", ":", "2", "0", ":", "0", "0">>,
      <<"%", " ", "F", "i", "e", "l", "d", "s", ":", " ", "t", "i", "m", "e", " ", "p", "o", "s", "_", "x", " ", "p", "o", "s", "_", "y">>, <<"%", "%", "E", "N", "D", "H", "E", "A", "D", "E", "R">>,
      <<"5", " ", "1", " ", "1">>, <<"2", " ", "4", " ", "4">>, <<"5", " ", "2", " ", "2">>>>

\* cluster tag without digits, unparsable start time, position-bearing,
\* rows with a non-numeric time, a missing x, a fractional time without y
\* and an infinite time
CelD ==
    <<<<"%", " ", "C", "l", "u", "s", "t", "e", "r", ":", " ", "n", "o", "n", "e">>, <<"%", " ", "S", "t", "a", "r", "t", " ", "t", "i", "m", "e", ":", " ", "n", "o", "o", "n">>, <<"%", " ", "E", "n", "d", " ", "t", "i", "m", "e", ":", " ", "1", "0", ":", "0", "0">>,
      <<"%", " ", "F", "i", "e", "l", "d", "s", ":", " ", "t", "i", "m", "e", " ", "p", "o", "s", "_", "x", " ", "p", "o", "s", "_", "y">>, <<"%", "%", "E", "N", "D", "H", "E", "A", "D", "E", "R">>,
      <<"5", " ", "9", " ", "9">>, <<"x", " ", "1", " ", "1">>, <<"7", " ", "n", "a", "n", " ", "2">>, <<"4", ".", "5", " ", "8">>,
      <<"i", "n", "f", " ", "3", " ", "3">>>>

\* malformed: no fields declaration
CelE == <<<<"%", " ", "C", "l", "u", "s", "t", "e", "r", ":", " ", "3">>, <<"%", " ", "S", "t", "a", "r", "t", " ", "t", "i", "m", "e", ":", " ", "0", ":", "0", "0">>, <<"%", "%", "E", "N", "D", "H", "E", "A", "D", "E", "R">>, <<"1">>>>

\* malformed: no end-of-header sentinel
CelF == <<<<"%", " ", "C", "l", "u", "s", "t", "e", "r", ":", " ", "3">>, <<"%", " ", "F", "i", "e", "l", "d", "s", ":", " ", "t", "i", "m", "e">>, <<"1">>>>

\* parses, but the field list has no "time" column
CelG ==
    <<<<"%", " ", "C", "l", "u", "s", "t", "e", "r", ":", " ", "4">>, <<"%", " ", "S", "t", "a", "r", "t", " ", "t", "i", "m", "e", ":", " ", "0", ":", "0", "0">>, <<"%", " ", "E", "n", "d", " ", "t", "i", "m", "e", ":", " ", "1", "0", ":", "0", "0">>,
      <<"%", " ", "F", "i", "e", "l", "d", "s", ":", " ", "p", "o", "s", "_", "x", " ", "p", "o", "s", "_", "y">>, <<"%", "%", "E", "N", "D", "H", "E", "A", "D", "E", "R">>, <<"1", " ", "1">>>>

\* cluster 7, no end time, no valid spike time
CelH ==
    <<<<"%", " ", "C", "l", "u", "s", "t", "e", "r", ":", " ", "7">>, <<"%", " ", "S", "t", "a", "r", "t", " ", "t", "i", "m", "e", ":", " ", "1", "0", ":", "0", "0">>,
      <<"%", " ", "F", "i", "e", "l", "d", "s", ":", " ", "t", "i", "m", "e">>, <<"%", "%", "E", "N", "D", "H", "E", "A", "D", "E", "R">>, <<"x">>>>

\* cluster 7, epoch 1200..1800, no valid spike time
CelI ==
    <<<<"%", " ", "C", "l", "u", "s", "t", "e", "r", ":", " ", "7">>, <<"%", " ", "S", "t", "a", "r", "t", " ", "t", "i", "m", "e", ":", " ", "2", "0", ":", "0", "0">>,
      <<"%", " ", "E", "n", "d", " ", "t", "i", "m", "e", ":", " ", "0", ":", "3", "0", ":", "0", "0">>, <<"%", " ", "F", "i", "e", "l", "d", "s", ":", " ", "t", "i", "m", "e">>,
      <<"%", "%", "E", "N", "D", "H", "E", "A", "D", "E", "R">>, <<"x">>>>

\* rejected by the table reader: the field list names "time" twice
CelJ ==
    <<<<"%", " ", "C", "l", "u", "s", "t", "e", "r", ":", " ", "3">>, <<"%", " ", "F", "i", "e", "l", "d", "s", ":", " ", "t", "i", "m", "e", " ", "t", "i", "m", "e">>,
      <<"%", "%", "E", "N", "D", "H", "E", "A", "D", "E", "R">>, <<"1", " ", "2">>>>

\* cluster 4, epoch 0..1200 (starts with CelA and CelB, ends later), spike
\* times 6, 0
CelK ==
    <<<<"%", " ", "C", "l", "u", "s", "t", "e", "r", ":", " ", "4">>, <<"%", " ", "S", "t", "a", "r", "t", " ", "t", "i", "m", "e", ":", " ", "0", ":", "0", "0">>, <<"%", " ", "E", "n", "d", " ", "t", "i", "m", "e", ":", " ", "2", "0", ":", "0", "0">>,
      <<"%", " ", "F", "i", "e", "l", "d", "s", ":", " ", "t", "i", "m", "e">>, <<"%", "%", "E", "N", "D", "H", "E", "A", "D", "E", "R">>, <<"6">>, <<"0">>>>

CelContents == <<CelA, CelB, CelC, CelD, CelE, CelF, CelG, CelH, CelI>>

CelSlots == TetrodeDirs \X CelNames

\* the raw tree in which slot (directory, name) holds the text pick[slot]
\* (0: no such file)
RawTree(pick) ==
    [d \in TetrodeDirs \cup {OtherDir} |->
        IF d = OtherDir THEN {[name |-> <<"B", "L", "1", ".", "C", "E", "L">>, lines |-> CelA]}
        ELSE {[name |-> n, lines |-> CelContents[pick[<<d, n>>]]] :
                n \in {m \in CelNames : pick[<<d, m>>] # 0}}
             \cup {[name |-> NotesFile.name, lines |-> NotesFile.lines]}]

RawTrees ==
    {RawTree(pick) : pick \in
        {p \in [CelSlots -> 0..Len(CelContents)] :
            Cardinality({sl \in CelSlots : p[sl] # 0}) <= MaxCelFiles}}

RmaNames == {<<"E", "S", "2", "B", "C", "0", "~", "1", ".", "R", "M", "A">>, <<"E", "S", "C", "E", "L", "L", "~", "1", ".", "R", "M", "A">>, <<"M", "C", "C", "E", "L", "L", "~", "1", "2", ".", "R", "M", "A">>}

\* binary files: two of the right size with different content, one too short
RmaBodies ==
    <<[size |-> RMA_FILE_SIZE, content |-> 1],
      [size |-> RMA_FILE_SIZE, content |-> 2],
      [size |-> RMA_FILE_SIZE - 1, content |-> 1]>>

RmaSlots == TetrodeDirs \X RmaNames

AnalyzedTree(pick) ==
    [d \in TetrodeDirs \cup {OtherDir} |->
        IF d = OtherDir
        THEN {[name |-> <<"E", "S", "C", "E", "L", "L", "~", "1", ".", "R", "M", "A">>, size |-> RMA_FILE_SIZE, content |-> 1]}
        ELSE {[name |-> n, size |-> RmaBodies[pick[<<d, n>>]].size,
               content |-> RmaBodies[pick[<<d, n>>]].content] :
                n \in {m \in RmaNames : pick[<<d, m>>] # 0}}
             \cup {[name |-> NotesFile.name, size |-> NotesFile.size,
                    content |-> NotesFile.content]}]

AnalyzedTrees ==
    {AnalyzedTree(pick) : pick \in
        {p \in [RmaSlots -> 0..Len(RmaBodies)] :
            Cardinality({sl \in RmaSlots : p[sl] # 0}) <= MaxRmaFiles}}

\* the analyzed tree of the sessions whose text files vary: a per-cell map and
\* a file of the wrong size in TT10, a task-level map in TT2
SessionAnalyzed ==
    AnalyzedTree([sl \in RmaSlots |->
        IF sl = <<<<"T", "T", "1", "0">>, <<"E", "S", "C", "E", "L", "L", "~", "1", ".", "R", "M", "A">>>> THEN 1
        ELSE IF sl = <<<<"T", "T", "1", "0">>, <<"M", "C", "C", "E", "L", "L", "~", "1", "2", ".", "R", "M", "A">>>> THEN 3
        ELSE IF sl = <<<<"T", "T", "2">>, <<"E", "S", "2", "B", "C", "0", "~", "1", ".", "R", "M", "A">>>> THEN 2
        ELSE 0])

EmptyRaw == RawTree([sl \in CelSlots |-> 0])

\* Trees whose directory names matter: tetrode directories with the same
\* number (TT2, tt2, TT02), and names that do not continue as an integer
SameNumberDirs == {<<"T", "T", "2">>, <<"t", "t", "2">>, <<"T", "T", "0", "2">>}

DiscoveryRaw(dirs) ==
    [d \in dirs \cup {OtherDir} |->
        {[name |-> <<"B", "L", "1", ".", "C", "E", "L">>,
          lines |-> IF d = <<"T", "T", "2">> THEN CelC ELSE IF d = <<"t", "t", "2">> THEN CelD ELSE CelA]}
        \cup (IF d = <<"T", "T", "0", "2">>
              THEN {[name |-> <<"B", "L", "2", ".", "C", "E", "L">>, lines |-> CelJ]}
              ELSE {})]

DiscoveryRawTrees ==
    {DiscoveryRaw(dirs) : dirs \in {SameNumberDirs, {<<"T", "T", "2">>, <<"T", "T", "x">>},
                                    {<<"T", "T">>, <<"T", "T", "1", "0">>}, {<<"T", "T", "1", ".", "5">>}}}

\* Trees in which stub_test matters: three text files, and three binary
\* files, in TT2 (no directory of the other trees of Init holds more than two)
StubRaw ==
    [d \in {<<"T", "T", "2">>} |->
        {[name |-> <<"B", "L", "1", ".", "C", "E", "L">>, lines |-> CelA],
         [name |-> <<"B", "L", "2", ".", "C", "E", "L">>, lines |-> CelB],
         [name |-> <<"E", "S", "1", ".", "C", "E", "L">>, lines |-> CelC]}]

\* A tree whose epochs start together: in TT2 the same task from 0 to 1200
\* and from 0 to 600, and another task from 0 to 600; in TT10 a record of the
\* second epoch again
EpochRaw ==
    [d \in TetrodeDirs |->
        IF d = <<"T", "T", "2">>
        THEN {[name |-> <<"B", "L", "1", ".", "C", "E", "L">>, lines |-> CelK],
              [name |-> <<"B", "L", "2", ".", "C", "E", "L">>, lines |-> CelA],
              [name |-> <<"E", "S", "1", ".", "C", "E", "L">>, lines |-> CelB]}
        ELSE {[name |-> <<"B", "L", "2", ".", "C", "E", "L">>, lines |-> CelA]}]

StubAnalyzed ==
    [d \in {<<"T", "T", "2">>} |->
        {[name |-> n, size |-> RMA_FILE_SIZE, content |-> 1] : n \in RmaNames}]

DiscoveryAnalyzed(dirs) ==
    [d \in dirs \cup {OtherDir} |->
        {[name |-> <<"E", "S", "C", "E", "L", "L", "~", "1", ".", "R", "M", "A">>, size |-> RMA_FILE_SIZE, content |-> 1],
         [name |-> <<"E", "S", "2", "B", "C", "0", "~", "1", ".", "R", "M", "A">>, size |-> RMA_FILE_SIZE, content |-> 2]}]

DiscoveryAnalyzedTrees ==
    {DiscoveryAnalyzed(dirs) : dirs \in {SameNumberDirs, {<<"T", "T", "2">>, <<"T", "T", "1", "a">>}}}

Idle ==
    /\ cel_lines = <<>>
    /\ cel_result = None
    /\ time_str = <<>>
    /\ time_result = None
    /\ file_name = <<>>
    /\ name_result = None
    /\ rma_data = <<>>
    /\ rma_result = None

Fresh ==
    /\ pc = "discover"
    /\ tt_dirs = <<>>
    /\ all_cel_files = <<>>
    /\ warnings = <<>>
    /\ epochs = <<>>
    /\ units = <<>>
    /\ position = None
    /\ rate_maps = None
    /\ exception = None

\* the subject names of the calls: the keys of the table, and names that are
\* no key (an unknown folder, a key in lower case, the empty name)
SubjectNames == DOMAIN SUBJECT_SESSION_MAP \cup {"FD4RAT9", "fd4rat1", ""}

\* convert_session on a raw tree of up to MaxCelFiles text files; the trees
\* with at most one text file in each tetrode directory come with and
\* without analyzed files.  The last calls are those of every subject name on
\* a raw directory that exists or not.
Init ==
    /\ \/ /\ raw_root \in {Some(t) : t \in RawTrees}
          /\ analyzed_root \in
                IF \A d \in TetrodeDirs : Cardinality(Only(raw_root)[d]) <= 2
                THEN {None, Some(SessionAnalyzed)} ELSE {None}
          /\ subject_name = "FD4RAT1"
          /\ stub_test = FALSE
       \/ /\ raw_root \in {Some(t) : t \in DiscoveryRawTrees}
          /\ analyzed_root = None
          /\ subject_name = "PREFLI~1"
          /\ stub_test = FALSE
       \/ /\ raw_root \in {Some(StubRaw), Some(EpochRaw)}
          /\ analyzed_root \in {None, Some(StubAnalyzed)}
          /\ subject_name = "FD9RAT2"
          /\ stub_test \in BOOLEAN
       \/ /\ raw_root \in {None, Some(EpochRaw)}
          /\ analyzed_root \in {None, Some(StubAnalyzed)}
          /\ subject_name \in SubjectNames
          /\ stub_test = FALSE
    /\ Fresh
    /\ Idle

\* convert_session on an analyzed tree of up to MaxRmaFiles binary files, with
\* a raw directory that exists or not and a subject name that is a key or not
InitMaps ==
    /\ raw_root \in {None, Some(EmptyRaw)}
    /\ analyzed_root \in {Some(t) : t \in AnalyzedTrees \cup DiscoveryAnalyzedTrees}
    /\ subject_name \in {"FD4RAT1", "FD4RAT9"}
    /\ stub_test \in BOOLEAN
    /\ Fresh
    /\ Idle

\* raise FileNotFoundError(f"RAW directory not found: {raw_root}")
FileNotFoundErrorRaw == "FileNotFoundError: RAW directory not found"

\* an exception that escapes convert_session, with the line that raises it
Escaped(error, line) == Some([error |-> error, line |-> line])

\* --- Discover tetrodes and create electrode groups ---: the ValueError of
\* the sort key is caught nowhere
Sorted(dirs) ==
    IF dirs.ok
    THEN /\ tt_dirs' = dirs.value
         /\ pc' = "parse"
         /\ exception' = exception
    ELSE /\ tt_dirs' = tt_dirs
         /\ pc' = "raised"
         /\ exception' = Escaped(dirs.error, 105)

\* The entry of convert_session, up to the electrode groups: a raw directory
\* that does not exist raises FileNotFoundError (line 68), a subject name
\* that is no key of the table raises KeyError (line 70), in this order, and
\* neither is caught
Discover ==
    /\ pc = "discover"
    /\ IF raw_root = None
       THEN /\ tt_dirs' = tt_dirs
            /\ pc' = "raised"
            /\ exception' = Escaped(FileNotFoundErrorRaw, 68)
       ELSE IF ~get_session_metadata(subject_name).ok
       THEN /\ tt_dirs' = tt_dirs
            /\ pc' = "raised"
            /\ exception' = Escaped(get_session_metadata(subject_name).error, 70)
       ELSE \E listed \in listings(DOMAIN Only(raw_root)) : Sorted(tt_dirs_of(listed))
    /\ UNCHANGED <<raw_root, analyzed_root, subject_name, stub_test, all_cel_files, warnings, epochs, units,
                   position, rate_maps, cel_lines, cel_result, time_str, time_result,
                   file_name, name_result, rma_data, rma_result>>

\* --- Parse all CEL files ---
Collect(att) ==
    /\ all_cel_files' = parsed_cel_files(att)
    /\ warnings' = warnings \o failed_cel_paths(att)

ParseAll ==
    /\ pc = "parse"
    /\ Collect(parse_attempts(Only(raw_root), tt_dirs, stub_test))
    /\ pc' = "epochs"
    /\ UNCHANGED <<raw_root, analyzed_root, subject_name, stub_test, tt_dirs, epochs, units, position, rate_maps,
                   cel_lines, cel_result, time_str, time_result, exception,
                   file_name, name_result, rma_data, rma_result>>

\* --- Build epochs ---
BuildEpochs ==
    /\ pc = "epochs"
    /\ epochs' = epoch_rows(all_cel_files)
    /\ pc' = "units"
    /\ UNCHANGED <<raw_root, analyzed_root, subject_name, stub_test, tt_dirs, all_cel_files, warnings, units, position,
                   rate_maps, cel_lines, cel_result, time_str, time_result, exception,
                   file_name, name_result, rma_data, rma_result>>

\* --- Add units ---: the KeyError of a record without a "time" column is
\* caught nowhere in convert_session
AddUnits ==
    /\ pc = "units"
    /\ IF units_raise(all_cel_files)
       THEN /\ exception' = Escaped(KeyErrorTime, 186)
            /\ pc' = "raised"
            /\ units' = units
       ELSE /\ units' = unit_rows(all_cel_files)
            /\ pc' = "position"
            /\ exception' = exception
    /\ UNCHANGED <<raw_root, analyzed_root, subject_name, stub_test, tt_dirs, all_cel_files, warnings, epochs, position,
                   rate_maps, cel_lines, cel_result, time_str, time_result,
                   file_name, name_result, rma_data, rma_result>>

\* --- Add position data (flight sessions only) ---
AddPosition ==
    /\ pc = "position"
    /\ position' = IF \E i \in 1..Len(all_cel_files) : all_cel_files[i][2].has_position
                   THEN _add_position_data(all_cel_files)
                   ELSE position
    /\ pc' = "rate_maps"
    /\ UNCHANGED <<raw_root, analyzed_root, subject_name, stub_test, tt_dirs, all_cel_files, warnings, epochs, units,
                   rate_maps, cel_lines, cel_result, time_str, time_result, exception,
                   file_name, name_result, rma_data, rma_result>>

\* --- Add rate maps ---: _add_rate_maps lists and sorts the directories of
\* analyzed_root on its own; the ValueError of the sort key escapes
CollectMaps(att) ==
    /\ rate_maps' = _add_rate_maps(att)
    /\ warnings' = warnings \o failed_rma_paths(att)

SortedMaps(root, dirs) ==
    IF dirs.ok
    THEN /\ CollectMaps(rma_attempts(discovered_rma(root, dirs.value, stub_test)))
         /\ pc' = "write"
         /\ exception' = exception
    ELSE /\ UNCHANGED <<rate_maps, warnings>>
         /\ pc' = "raised"
         /\ exception' = Escaped(dirs.error, 286)

AddRateMaps ==
    /\ pc = "rate_maps"
    /\ IF analyzed_root # None
       THEN \E listed \in listings(DOMAIN Only(analyzed_root)) :
                SortedMaps(Only(analyzed_root), tt_dirs_of(listed))
       ELSE /\ UNCHANGED <<rate_maps, warnings, exception>>
            /\ pc' = "write"
    /\ UNCHANGED <<raw_root, analyzed_root, subject_name, stub_test, tt_dirs, all_cel_files, epochs, units, position,
                   cel_lines, cel_result, time_str, time_result,
                   file_name, name_result, rma_data, rma_result>>

\* --- Write ---
Write ==
    /\ pc = "write"
    /\ pc' = "done"
    /\ UNCHANGED <<raw_root, analyzed_root, subject_name, stub_test, tt_dirs, all_cel_files, warnings, epochs, units,
                   position, rate_maps, cel_lines, cel_result, time_str, time_result,
                   exception,
                   file_name, name_result, rma_data, rma_result>>

Next ==
    \/ Discover
    \/ ParseAll
    \/ BuildEpochs
    \/ AddUnits
    \/ AddPosition
    \/ AddRateMaps
    \/ Write

Spec == Init /\ [][Next]_vars

SpecMaps == InitMaps /\ [][Next]_vars

----------------------------------------------------------------------------
(* _parse_time_str on its own: the strings of up to MaxParts components    *)

MaxParts == 4

\* sep.join(parts)
RECURSIVE join(_, _)
join(parts, sep) ==
    IF parts = <<>> THEN <<>>
    ELSE IF Len(parts) = 1 THEN parts[1]
    ELSE parts[1] \o <<sep>> \o join(Tail(parts), sep)

\* The components the strings are built from, each with what Python's int()
\* makes of it (None: ValueError).
TimeParts ==
    <<[text |-> <<>>, int |-> None],
      [text |-> <<"1">>, int |-> Some(1)],
      [text |-> <<"0", "2">>, int |-> Some(2)],
      [text |-> <<"0", "3">>, int |-> Some(3)],
      [text |-> <<"0", "1">>, int |-> Some(1)],
      [text |-> <<"a", "b">>, int |-> None],
      [text |-> <<"-", "1">>, int |-> Some(-1)],
      [text |-> <<" ", "5">>, int |-> Some(5)],
      [text |-> <<"1", "_", "0">>, int |-> Some(10)],
      [text |-> <<"-", "1", "6", "6", "6", "6">>, int |-> Some(-16666)],
      [text |-> <<"-", "3", "9">>, int |-> Some(-39)]>>

PartTuples == UNION {[1..n -> 1..Len(TimeParts)] : n \in 1..MaxParts}

TimeStrings == {join([i \in DOMAIN t |-> TimeParts[t[i]].text], ":") : t \in PartTuples}

InitTime ==
    /\ pc = "time_call"
    /\ time_str \in TimeStrings
    /\ time_result = None
    /\ raw_root = Some(EmptyRaw)
    /\ analyzed_root = None
    /\ subject_name = "FD4RAT1"
    /\ stub_test = FALSE
    /\ tt_dirs = <<>>
    /\ all_cel_files = <<>>
    /\ warnings = <<>>
    /\ epochs = <<>>
    /\ units = <<>>
    /\ position = None
    /\ rate_maps = None
    /\ exception = None
    /\ cel_lines = <<>>
    /\ cel_result = None
    /\ file_name = <<>>
    /\ name_result = None
    /\ rma_data = <<>>
    /\ rma_result = None

ParseTime ==
    /\ pc = "time_call"
    /\ time_result' = Some(Returned(_parse_time_str(time_str)))
    /\ pc' = "time_done"
    /\ UNCHANGED <<raw_root, analyzed_root, subject_name, stub_test, tt_dirs, all_cel_files, warnings, epochs, units,
                   position, rate_maps, cel_lines, cel_result, time_str, exception,
                   file_name, name_result, rma_data, rma_result>>

NextTime == ParseTime

SpecTime == InitTime /\ [][NextTime]_vars

----------------------------------------------------------------------------
(* read_cel_file on its own                                                *)

MaxRows == 2

ProbeName == <<"E", "S", "1", ".", "C", "E", "L">>

PadLine == <<"%", " ", "R", "a", "t", ":", " ", "7">>

FieldsLine == <<"%", " ", "F", "i", "e", "l", "d", "s", ":", " ", "t", "i", "m", "e", " ", "p", "o", "s", "_", "x">>

LateFieldsLine == <<"f", "i", "e", "l", "d", "s", ":", "p", "o", "s", "_", "x">>

\* n header lines that are neither a fields declaration nor the sentinel
Pad(n) == [i \in 1..n |-> PadLine]

Opt(present, line) == IF present THEN <<line>> ELSE <<>>

\* Files that vary where the fields declaration and the sentinel stand:
\* `pad` lines, the fields line, `gap` lines, the sentinel, a second fields
\* line, two data rows.
ScanFile(pad, has_fields, gap, has_end, late) ==
    Pad(pad) \o Opt(has_fields, FieldsLine) \o Pad(gap) \o Opt(has_end, ENDHEADER)
    \o Opt(late, LateFieldsLine) \o <<<<"1", " ", "2">>, <<"x", " ", "y">>>>

PadChoices == {0, 1, ScanLimit - 2, ScanLimit - 1, ScanLimit}

ScanFiles ==
    {ScanFile(pad, f, gap, e, late) :
        pad \in PadChoices, f \in BOOLEAN, gap \in {0, 1}, e \in BOOLEAN,
        late \in BOOLEAN}

\* Files that vary in their data rows: up to MaxRows rows of one or two
\* tokens, and blank lines.
Tokens == {<<"1">>, <<"2", ".", "5">>, <<"x">>, <<"n", "a", "n">>, <<"T", "r", "u", "e">>, <<"i", "n", "f">>, <<"N", "A", "N">>, <<"1", ".", "#", "I", "N", "D">>}

SecondTokens == {<<"2">>, <<"x">>, <<"n", "a", "n">>}

TokenLists ==
    {<<>>} \cup {<<a>> : a \in Tokens} \cup {<<a, b>> : a \in Tokens, b \in SecondTokens}

RowLine(tokens) == join(tokens, " ")

RowLists == UNION {[1..n -> TokenLists] : n \in 0..MaxRows}

RowFile(rows) ==
    <<<<"%", " ", "C", "l", "u", "s", "t", "e", "r", ":", " ", "3">>, FieldsLine, <<" ", "%", "%", "E", "N", "D", "H", "E", "A", "D", "E", "R", " ">>>>
    \o [i \in DOMAIN rows |-> RowLine(rows[i])]

RowFiles == {RowFile(rows) : rows \in RowLists}

\* Files that vary in their field list (one name, the same name twice, no
\* name, two names) and in the number of tokens of their rows.
TableHeaders ==
    <<[line |-> <<"%", " ", "F", "i", "e", "l", "d", "s", ":", " ", "t", "i", "m", "e">>, fields |-> <<TIME>>],
      [line |-> <<"%", " ", "F", "i", "e", "l", "d", "s", ":", " ", "t", "i", "m", "e", " ", "t", "i", "m", "e">>, fields |-> <<TIME, TIME>>],
      [line |-> <<"%", " ", "F", "i", "e", "l", "d", "s", ":">>, fields |-> <<>>],
      [line |-> <<"%", " ", "F", "i", "e", "l", "d", "s", ":", " ", "p", "o", "s", "_", "x", " ", "t", "i", "m", "e">>, fields |-> <<POS_X, TIME>>]>>

TableLines == {<<"1">>, <<"1", " ", "2">>, <<"1", " ", "2", " ", "3">>, <<"x">>, <<"1", "e", "3">>, <<"-", "1", "e", "-", "1">>}

TableFile(h, rows) == <<TableHeaders[h].line, ENDHEADER>> \o rows

TableFiles ==
    {TableFile(h, rows) :
        h \in 1..Len(TableHeaders),
        rows \in UNION {[1..n -> TableLines] : n \in 0..MaxRows}}

\* Files that vary in their Cluster header lines: none, one or two of them.
ClusterLines ==
    {<<"%", " ", "C", "l", "u", "s", "t", "e", "r", ":", " ", "3">>, <<"%", " ", "C", "l", "u", "s", "t", "e", "r", ":", " ", "1", "2">>, <<"%", "C", "l", "u", "s", "t", "e", "r", ":", "0", "0", "7">>, <<"%", " ", "C", "l", "u", "s", "t", "e", "r", ":", " ", "n", "o", "n", "e">>,
     <<"%", " ", "C", "l", "u", "s", "t", "e", "r", ":">>, <<"%", " ", "C", "l", "u", "s", "t", "e", "r", ":", " ", "c", "4", "x", "5", "6">>, <<"%", " ", "C", "l", "u", "s", "t", "e", "r", ":", " ", "x", " ", "9", " ">>, <<"%", " ", "C", "l", "u", "s", "t", "e", "r", ":", " ", "-", "5">>,
     <<"%", " ", "C", "l", "u", "s", "t", "e", "r", ":", " ", "1", ":", "2">>, <<"%", " ", "c", "l", "u", "s", "t", "e", "r", ":", " ", "9">>, <<"%", "%", " ", "C", "l", "u", "s", "t", "e", "r", " ", ":", " ", "4", "0">>}

ClusterHeaders ==
    {<<>>} \cup {<<a>> : a \in ClusterLines} \cup {<<a, b>> : a, b \in ClusterLines}

ClusterFile(header) == header \o <<FieldsLine, ENDHEADER, <<"1", " ", "2">>>>

ClusterFiles == {ClusterFile(header) : header \in ClusterHeaders}

InitCel ==
    /\ pc = "cel_call"
    /\ cel_lines \in ScanFiles \cup RowFiles \cup TableFiles \cup ClusterFiles
    /\ cel_result = None
    /\ raw_root = Some(EmptyRaw)
    /\ analyzed_root = None
    /\ subject_name = "FD4RAT1"
    /\ stub_test = FALSE
    /\ tt_dirs = <<>>
    /\ all_cel_files = <<>>
    /\ warnings = <<>>
    /\ epochs = <<>>
    /\ units = <<>>
    /\ position = None
    /\ rate_maps = None
    /\ exception = None
    /\ time_str = <<>>
    /\ time_result = None
    /\ file_name = <<>>
    /\ name_result = None
    /\ rma_data = <<>>
    /\ rma_result = None

ReadCel ==
    /\ pc = "cel_call"
    /\ cel_result' = Some(read_cel_file(ProbeName, cel_lines))
    /\ pc' = "cel_done"
    /\ UNCHANGED <<raw_root, analyzed_root, subject_name, stub_test, tt_dirs, all_cel_files, warnings, epochs, units,
                   position, rate_maps, cel_lines, time_str, time_result, exception,
                   file_name, name_result, rma_data, rma_result>>

NextCel == ReadCel

SpecCel == InitCel /\ [][NextCel]_vars

----------------------------------------------------------------------------
(* read_rma_file on its own                                                *)

MaxFill == 2

\* byte i (from 0) of the file filled from `seed`: the bytes differ from one
\* element, one row and one half of the file to the next
FillByte(seed, i) ==
    (i * (2 * seed[1] + 1) + (i \div 4) * 16 + (i \div 256) * seed[2]
     + (i \div 16384) * 101) % 256

Fill(seed, length) == [i \in 1..length |-> FillByte(seed, i - 1)] \o <<>>

FillSeeds == (1..MaxFill) \X (1..MaxFill)

\* the lengths around the expected one, and an empty file
FillLengths ==
    {0, RMA_FILE_SIZE - 4, RMA_FILE_SIZE - 1, RMA_FILE_SIZE, RMA_FILE_SIZE + 1,
     RMA_FILE_SIZE + 4}

InitRma ==
    /\ pc = "rma_call"
    /\ file_name \in RmaNames
    /\ rma_data \in {Fill(seed, length) : seed \in FillSeeds, length \in FillLengths}
    /\ rma_result = None
    /\ name_result = None
    /\ raw_root = Some(EmptyRaw)
    /\ analyzed_root = None
    /\ subject_name = "FD4RAT1"
    /\ stub_test = FALSE
    /\ tt_dirs = <<>>
    /\ all_cel_files = <<>>
    /\ warnings = <<>>
    /\ epochs = <<>>
    /\ units = <<>>
    /\ position = None
    /\ rate_maps = None
    /\ exception = None
    /\ cel_lines = <<>>
    /\ cel_result = None
    /\ time_str = <<>>
    /\ time_result = None

ReadRma ==
    /\ pc = "rma_call"
    /\ rma_result' = Some(read_rma_file_bytes(file_name, rma_data))
    /\ pc' = "rma_done"
    /\ UNCHANGED <<raw_root, analyzed_root, subject_name, stub_test, tt_dirs, all_cel_files, warnings, epochs, units,
                   position, rate_maps, cel_lines, cel_result, time_str, time_result,
                   exception, file_name, name_result, rma_data>>

NextRma == ReadRma

SpecRma == InitRma /\ [][NextRma]_vars

----------------------------------------------------------------------------
(* _parse_rma_filename and _infer_session_type on their own                *)

\* File names put together from a beginning, a middle and an end.
NameHeads ==
    {<<>>, <<"B", "L">>, <<"b", "l">>, <<"E", "s">>, <<"e", "S">>, <<"M", "C">>, <<"m", "c">>, <<"B">>, <<"x", "B", "L">>, <<"M">>, <<"L", "B">>}

NameMiddles ==
    {<<>>, <<"C", "E", "L", "L", "~", "7">>, <<"c", "e", "l", "l", "~", "0", "7">>, <<"C", "e", "l", "l", "~", "1", "2", "x", "3">>, <<"C", "E", "L", "L", "~">>, <<"C", "E", "L", "L", "~", "x">>, <<"C", "E", "L", "L", "7">>,
     <<"2", "B", "C", "0", "~", "1">>, <<"C", "E", "L", "L", "~", "x", "C", "E", "L", "L", "~", "5">>, <<"E", "L", "L", "~", "4">>}

NameTails == {<<>>, <<".", "R", "M", "A">>, <<".", "c", "e", "l">>, <<".", "C", "E", "L", "L", "~", "9">>}

FileNames == {h \o m \o t : h \in NameHeads, m \in NameMiddles, t \in NameTails}

InitName ==
    /\ pc = "name_call"
    /\ file_name \in FileNames
    /\ name_result = None
    /\ rma_data = <<>>
    /\ rma_result = None
    /\ raw_root = Some(EmptyRaw)
    /\ analyzed_root = None
    /\ subject_name = "FD4RAT1"
    /\ stub_test = FALSE
    /\ tt_dirs = <<>>
    /\ all_cel_files = <<>>
    /\ warnings = <<>>
    /\ epochs = <<>>
    /\ units = <<>>
    /\ position = None
    /\ rate_maps = None
    /\ exception = None
    /\ cel_lines = <<>>
    /\ cel_result = None
    /\ time_str = <<>>
    /\ time_result = None

\* the name read as a binary map's (task type, cell number) and as a text
\* record's (task type)
ParseName ==
    /\ pc = "name_call"
    /\ name_result' = Some([rma |-> _parse_rma_filename(file_name),
                            cel |-> _infer_session_type(file_name)])
    /\ pc' = "name_done"
    /\ UNCHANGED <<raw_root, analyzed_root, subject_name, stub_test, tt_dirs, all_cel_files, warnings, epochs, units,
                   position, rate_maps, cel_lines, cel_result, time_str, time_result,
                   exception, file_name, rma_data, rma_result>>

NextName == ParseName

SpecName == InitName /\ [][NextName]_vars

----------------------------------------------------------------------------
(* Properties of convert_session                                           *)

\* the stages of convert_session that have completed
\* convert_session was left by an exception raised after line n
RaisedAfter(n) == pc = "raised" /\ Only(exception).line > n

EpochsBuilt == pc \in {"units", "position", "rate_maps", "write", "done"} \/ RaisedAfter(168)

UnitsAdded == pc \in {"position", "rate_maps", "write", "done"} \/ RaisedAfter(199)

PositionAdded == pc \in {"rate_maps", "write", "done"} \/ RaisedAfter(204)

MapsAdded == pc \in {"write", "done"}

Records == {all_cel_files[i] : i \in 1..Len(all_cel_files)}

Count(seq, v) == Cardinality({i \in 1..Len(seq) : seq[i] = v})

RECURSIVE SumOver(_, _)
SumOver(counts, n) == IF n = 0 THEN 0 ELSE counts[n] + SumOver(counts, n - 1)

\* the order of the task-type strings: "BL" < "ES" < "MC" < "unknown"
TypeRank(t) == IF t = BL THEN 1 ELSE IF t = ES THEN 2 ELSE IF t = MC THEN 3 ELSE 4

\* the tetrode directories: their numbers, and their order as strings
\* ("TT10" < "TT2")
TetrodeNumber(d) == IF d = <<"T", "T", "1", "0">> THEN 10 ELSE 2

TetrodeNameRank(d) ==
    IF d = <<"T", "T", "0", "2">> THEN 1 ELSE IF d = <<"T", "T", "1", "0">> THEN 2 ELSE IF d = <<"T", "T", "2">> THEN 3 ELSE 4

\* a <= b for numbers that are not NaN
AtMost(a, b) == ~float_lt(b, a)

\* the numbers the text files of the sessions hold
SessionValues == {float(i) : i \in 0..9} \cup {Number(45, 10), Infinity(1)}

\* C1: no error originating from one file aborts the session: whatever the
\* files are, convert_session raises nothing and, once its steps are over, has
\* parsed every well-formed file and run the merges.
C1_NoFileAbortsSession ==
    ~(pc = "raised" /\ Only(exception).error = KeyErrorTime)

\* C2: the epoch list holds exactly the distinct (start, end, task type)
\* triples of the records with both times defined, each once, in ascending
\* lexicographic order.
TimedTriples ==
    {epoch_key(tc[2]) : tc \in {r \in Records :
        ~isnan(r[2].start_time_sec) /\ ~isnan(r[2].end_time_sec)}}

EpochTriple(e) == <<e.start_time, e.stop_time, e.session_type>>

TripleBefore(a, b) ==
    \/ float_lt(a[1], b[1])
    \/ a[1] = b[1] /\ float_lt(a[2], b[2])
    \/ a[1] = b[1] /\ a[2] = b[2] /\ TypeRank(a[3]) < TypeRank(b[3])

C2_EpochsDistinctSorted ==
    EpochsBuilt =>
        /\ {EpochTriple(epochs[i]) : i \in 1..Len(epochs)} = TimedTriples
        /\ Len(epochs) = Cardinality(TimedTriples)
        /\ \A i, j \in 1..Len(epochs) :
             i < j => TripleBefore(EpochTriple(epochs[i]), EpochTriple(epochs[j]))

\* four timed records that start at 0, two of them with the same triple, read
\* in the order (0, 1200, BL), (0, 600, BL), (0, 600, ES), (0, 600, BL): three
\* epochs, the end time deciding before the task type
C2_Witness ==
    /\ EpochsBuilt
    /\ Len(all_cel_files) = 4
    /\ epoch_key(all_cel_files[1][2]) = <<float(0), float(1200), BL>>
    /\ epoch_key(all_cel_files[2][2]) = <<float(0), float(600), BL>>
    /\ epoch_key(all_cel_files[3][2]) = <<float(0), float(600), ES>>
    /\ epoch_key(all_cel_files[4][2]) = <<float(0), float(600), BL>>
    /\ epochs = <<[start_time |-> float(0), stop_time |-> float(600), session_type |-> BL],
                  [start_time |-> float(0), stop_time |-> float(600), session_type |-> ES],
                  [start_time |-> float(0), stop_time |-> float(1200), session_type |-> BL]>>

\* three timed records, two of them with the same triple, give two epochs
C2_DuplicateWitness ==
    /\ EpochsBuilt
    /\ Len(all_cel_files) = 3
    /\ \A i \in 1..3 : ~isnan(all_cel_files[i][2].start_time_sec)
                       /\ ~isnan(all_cel_files[i][2].end_time_sec)
    /\ epochs = <<[start_time |-> float(0), stop_time |-> float(600), session_type |-> BL],
                  [start_time |-> float(600), stop_time |-> float(1200),
                   session_type |-> ES]>>

\* C3: every unit's spike times are ascending and are, value for value and
\* count for count, the valid spike times of the records of its tetrode and
\* cluster.
RecordCluster(cel) == IF cel.cluster = None THEN -1 ELSE Only(cel.cluster)

ValidTimes(cel) ==
    LET col == spike_times(cel)
    IN  {i \in 1..Len(col) : ~isnan(col[i])}

\* how many valid spike times equal to v (or any, with v = NaN) the records
\* of (tetrode, cluster) hold
Contributed(tetrode, cluster, v) ==
    SumOver([i \in 1..Len(all_cel_files) |->
                IF /\ all_cel_files[i][1] = tetrode
                   /\ RecordCluster(all_cel_files[i][2]) = cluster
                THEN Cardinality({r \in ValidTimes(all_cel_files[i][2]) :
                        v = NaN \/ spike_times(all_cel_files[i][2])[r] = v})
                ELSE 0],
            Len(all_cel_files))

C3_UnitsMergeEveryValidTime ==
    UnitsAdded =>
        \A k \in 1..Len(units) :
            LET u == units[k]
            IN  /\ \A i, j \in 1..Len(u.spike_times) :
                     i < j => AtMost(u.spike_times[i], u.spike_times[j])
                /\ Len(u.spike_times) = Contributed(u.tetrode, u.cluster_id, NaN)
                /\ \A v \in SessionValues :
                     Count(u.spike_times, v) = Contributed(u.tetrode, u.cluster_id, v)
                /\ \A i \in 1..Len(u.spike_times) : u.spike_times[i] \in SessionValues

\* two records of (TT2, 3), with times 1, 3 and 3, 2, merge into 1, 2, 3, 3
C3_Witness ==
    /\ UnitsAdded
    /\ \E k \in 1..Len(units) :
         /\ units[k].tetrode = <<"T", "T", "2">>
         /\ units[k].cluster_id = 3
         /\ units[k].spike_times = <<float(1), float(2), float(3), float(3)>>

\* C4: the position trace keeps no sample with a missing time or coordinate,
\* has strictly ascending times, has one sample for each distinct time of the
\* pooled valid samples, and that sample is the first one of its time in the
\* pooling order (records in parse order, rows in file order).
HasColumns(cel) == {TIME, POS_X, POS_Y} \subseteq Range(cel.fields)

\* (record, row) pairs of the pooled samples whose three values are defined
ValidSamples ==
    {p \in (1..Len(all_cel_files)) \X (1..MaxSessionRows) :
        LET cel == all_cel_files[p[1]][2]
        IN  /\ HasColumns(cel)
            /\ p[2] <= Len(cel.data)
            /\ ~isnan(spike_times(cel)[p[2]])
            /\ ~isnan(pos_x(cel)[p[2]])
            /\ ~isnan(pos_y(cel)[p[2]])}

Sample(p) ==
    LET cel == all_cel_files[p[1]][2]
    IN  <<spike_times(cel)[p[2]], pos_x(cel)[p[2]], pos_y(cel)[p[2]]>>

PooledBefore(p, q) == p[1] < q[1] \/ (p[1] = q[1] /\ p[2] <= q[2])

Trace == IF position = None THEN <<>> ELSE Only(position)

C4_PositionFirstPerTime ==
    PositionAdded =>
        /\ \A k \in 1..Len(Trace) :
             /\ ~isnan(Trace[k][1]) /\ ~isnan(Trace[k][2]) /\ ~isnan(Trace[k][3])
             /\ \E p \in ValidSamples :
                  /\ Sample(p) = Trace[k]
                  /\ \A q \in ValidSamples :
                       Sample(q)[1] = Trace[k][1] => PooledBefore(p, q)
        /\ \A i, j \in 1..Len(Trace) : i < j => float_lt(Trace[i][1], Trace[j][1])
        /\ {Trace[k][1] : k \in 1..Len(Trace)} = {Sample(p)[1] : p \in ValidSamples}

\* time 5 is pooled three times, with (9, 9) first, (1, 1) next, (2, 2) last
C4_Witness ==
    /\ PositionAdded
    /\ Trace = <<<<float(2), float(4), float(4)>>, <<float(5), float(9), float(9)>>,
                 <<Infinity(1), float(3), float(3)>>>>
    /\ \E p, q \in ValidSamples :
         /\ Sample(p) = <<float(5), float(1), float(1)>>
         /\ Sample(q) = <<float(5), float(2), float(2)>>

\* C5: the rate-map table has one row per binary file that parsed, in the
\* order of discovery (tetrode directories by number, files by name), none
\* for a file that failed; files with the same content, task type and cell id
\* keep their own rows; a file without cell number has cell id -1.
MapRows == IF rate_maps = None THEN <<>> ELSE Only(rate_maps)

MapNameRank(n) ==
    IF n = <<"E", "S", "2", "B", "C", "0", "~", "1", ".", "R", "M", "A">> THEN 1 ELSE IF n = <<"E", "S", "C", "E", "L", "L", "~", "1", ".", "R", "M", "A">> THEN 2 ELSE 3

MapCellId(n) ==
    IF n = <<"E", "S", "2", "B", "C", "0", "~", "1", ".", "R", "M", "A">> THEN -1 ELSE IF n = <<"E", "S", "C", "E", "L", "L", "~", "1", ".", "R", "M", "A">> THEN 1 ELSE 12

\* with stub_test only the first two binary files of a directory, by name,
\* are read
MapRead(d, n) ==
    \/ ~stub_test
    \/ Cardinality({g \in Only(analyzed_root)[d] :
            g.name \in RmaNames /\ MapNameRank(g.name) < MapNameRank(n)}) < 2

\* the (directory, file) pairs of the binary files read that have the right
\* size
GoodMaps ==
    IF analyzed_root = None THEN {}
    ELSE {df \in (DOMAIN Only(analyzed_root) \ {OtherDir}) \X RmaNames :
            /\ MapRead(df[1], df[2])
            /\ \E f \in Only(analyzed_root)[df[1]] :
                  f.name = df[2] /\ f.size = RMA_FILE_SIZE}

MapContent(df) ==
    (CHOOSE f \in Only(analyzed_root)[df[1]] : f.name = df[2]).content

\* directories with the same number come in the order of their listing
DiscoveredBefore(a, b) ==
    \/ TetrodeNumber(a.tetrode) < TetrodeNumber(b.tetrode)
    \/ /\ a.tetrode = b.tetrode
       /\ MapNameRank(a.source_file) < MapNameRank(b.source_file)
    \/ /\ a.tetrode # b.tetrode
       /\ TetrodeNumber(a.tetrode) = TetrodeNumber(b.tetrode)

C5_OneRowPerMapFile ==
    MapsAdded =>
        /\ Len(MapRows) = Cardinality(GoodMaps)
        /\ {<<MapRows[k].tetrode, MapRows[k].source_file>> : k \in 1..Len(MapRows)}
             = GoodMaps
        /\ \A i, j \in 1..Len(MapRows) :
             i < j => DiscoveredBefore(MapRows[i], MapRows[j])
        /\ \A i, j, k \in 1..Len(MapRows) :
             (i < j /\ j < k /\ MapRows[i].tetrode = MapRows[k].tetrode)
                 => MapRows[j].tetrode = MapRows[i].tetrode
        /\ \A k \in 1..Len(MapRows) :
             /\ MapRows[k].cell_number = MapCellId(MapRows[k].source_file)
             /\ MapRows[k].rate_map
                  = <<"rate_map", MapContent(<<MapRows[k].tetrode, MapRows[k].source_file>>)>>

\* two files of the same name and content in two tetrodes, and a task-level
\* map: three rows, TT2 first
C5_Witness ==
    /\ MapsAdded
    /\ Len(MapRows) = 3
    /\ MapRows[1].tetrode = <<"T", "T", "2">> /\ MapRows[1].cell_number = -1
    /\ MapRows[2].tetrode = <<"T", "T", "2">> /\ MapRows[3].tetrode = <<"T", "T", "1", "0">>
    /\ MapRows[2].source_file = MapRows[3].source_file
    /\ MapRows[2].rate_map = MapRows[3].rate_map
    /\ MapRows[2].session_type = MapRows[3].session_type
    /\ MapRows[2].cell_number = MapRows[3].cell_number

\* stub_test and three binary files of the right size in TT2: two rows
C5_StubWitness ==
    /\ MapsAdded
    /\ stub_test
    /\ Cardinality({f \in Only(analyzed_root)[<<"T", "T", "2">>] :
            f.name \in RmaNames /\ f.size = RMA_FILE_SIZE}) = 3
    /\ Len(MapRows) = 2
    /\ MapRows[2].cell_number = 1

\* C6: the units are grouped by (tetrode, cluster id), a record without
\* cluster id under -1, which no parsed cluster id equals; the units come in
\* ascending order of (tetrode identifier, cluster id), each key once.
\* the cluster id written in the text of a record's header
HeaderCluster(header) ==
    IF CLUSTER_KEY \notin DOMAIN header THEN -1
    ELSE IF header[CLUSTER_KEY] = <<"3">> THEN 3
    ELSE IF header[CLUSTER_KEY] = <<"4">> THEN 4
    ELSE IF header[CLUSTER_KEY] = <<"7">> THEN 7
    ELSE -1

UnitKeyBefore(a, b) ==
    \/ TetrodeNameRank(a.tetrode) < TetrodeNameRank(b.tetrode)
    \/ a.tetrode = b.tetrode /\ a.cluster_id < b.cluster_id

C6_UnitsGroupedAndOrdered ==
    UnitsAdded =>
        /\ \A i, j \in 1..Len(units) : i < j => UnitKeyBefore(units[i], units[j])
        /\ \A tc \in Records :
             /\ tc[2].cluster # None => Only(tc[2].cluster) # -1
             /\ ValidTimes(tc[2]) # {} =>
                  \E k \in 1..Len(units) :
                      /\ units[k].tetrode = tc[1]
                      /\ units[k].cluster_id = HeaderCluster(tc[2].header)
        /\ \A k \in 1..Len(units) :
             \E tc \in Records :
                 /\ ValidTimes(tc[2]) # {}
                 /\ tc[1] = units[k].tetrode
                 /\ HeaderCluster(tc[2].header) = units[k].cluster_id

\* TT10 holds a record without cluster id and one of cluster 3, TT2 one of
\* cluster 3: the units are (TT10, -1), (TT10, 3), (TT2, 3)
C6_Witness ==
    /\ UnitsAdded
    /\ Len(units) = 3
    /\ units[1].tetrode = <<"T", "T", "1", "0">> /\ units[1].cluster_id = -1
    /\ units[2].tetrode = <<"T", "T", "1", "0">> /\ units[2].cluster_id = 3
    /\ units[3].tetrode = <<"T", "T", "2">> /\ units[3].cluster_id = 3

\* C7: a record whose start or end time is NaN gives no epoch, while its
\* valid spike times are merged into its unit and its valid position samples
\* are pooled.
Untimed == {tc \in Records :
    isnan(tc[2].start_time_sec) \/ isnan(tc[2].end_time_sec)}

C7_UntimedRecordStillMerged ==
    /\ EpochsBuilt =>
         \A k \in 1..Len(epochs) :
             /\ ~isnan(epochs[k].start_time) /\ ~isnan(epochs[k].stop_time)
             /\ \E tc \in Records \ Untimed : epoch_key(tc[2]) = EpochTriple(epochs[k])
    /\ UnitsAdded =>
         \A tc \in Untimed : \A r \in ValidTimes(tc[2]) :
             \E k \in 1..Len(units) :
                 /\ units[k].tetrode = tc[1]
                 /\ units[k].cluster_id = RecordCluster(tc[2])
                 /\ Count(units[k].spike_times, spike_times(tc[2])[r]) >=
                      Cardinality({q \in ValidTimes(tc[2]) :
                          spike_times(tc[2])[q] = spike_times(tc[2])[r]})
    /\ PositionAdded =>
         \A p \in ValidSamples :
             all_cel_files[p[1]] \in Untimed =>
                 \E k \in 1..Len(Trace) : Trace[k][1] = Sample(p)[1]

\* the only record has no start time: no epoch, but a unit with its spike
\* times 4.5, 5, 7, inf and position samples at its times 5 and inf
C7_Witness ==
    /\ PositionAdded
    /\ Len(all_cel_files) = 1
    /\ Len(tt_dirs) = 2
    /\ Records = Untimed
    /\ epochs = <<>>
    /\ Len(units) = 1
    /\ units[1].spike_times = <<Number(45, 10), float(5), float(7), Infinity(1)>>
    /\ Trace = <<<<float(5), float(9), float(9)>>, <<Infinity(1), float(3), float(3)>>>>

----------------------------------------------------------------------------
(* Properties of read_cel_file                                             *)

CelReturned == pc = "cel_done" /\ cel_result # None

CelOutcome == Only(cel_result)

\* the lines of the files that are the sentinel, and those that declare
\* fields, each with the fields it declares
IsSentinelLine(line) == line \in {<<"%", "%", "E", "N", "D", "H", "E", "A", "D", "E", "R">>, <<" ", "%", "%", "E", "N", "D", "H", "E", "A", "D", "E", "R", " ">>}

FieldsLines ==
    <<[line |-> FieldsLine, fields |-> <<TIME, POS_X>>],
      [line |-> LateFieldsLine, fields |-> <<POS_X>>]>> \o TableHeaders

IsFieldsLine(line) == \E h \in 1..Len(FieldsLines) : FieldsLines[h].line = line

LineFields(line) ==
    FieldsLines[CHOOSE h \in 1..Len(FieldsLines) : FieldsLines[h].line = line].fields

ScanWindow == 1..(IF Len(cel_lines) < 800 THEN Len(cel_lines) ELSE 800)

\* the (1-based) line of the first sentinel of the window, 0 if it has none
FirstSentinel ==
    IF \E i \in ScanWindow : IsSentinelLine(cel_lines[i])
    THEN CHOOSE i \in ScanWindow :
            /\ IsSentinelLine(cel_lines[i])
            /\ \A j \in 1..(i - 1) : ~IsSentinelLine(cel_lines[j])
    ELSE 0

ScannedLines == IF FirstSentinel = 0 THEN ScanWindow ELSE 1..FirstSentinel

FieldsSeen == \E i \in ScannedLines : IsFieldsLine(cel_lines[i])

\* the fields of the last declaration among the scanned lines
DeclaredFields ==
    LineFields(cel_lines[CHOOSE i \in ScannedLines :
        /\ IsFieldsLine(cel_lines[i])
        /\ \A j \in ScannedLines : j > i => ~IsFieldsLine(cel_lines[j])])

\* the data lines that are not blank, and the number of tokens of one
DataLines == SubSeq(cel_lines, FirstSentinel + 1, Len(cel_lines))

Width(line) == Len(splitws(line))

NonBlank == SelectSeq(DataLines, LAMBDA line : Width(line) > 0)

FirstWidth == IF NonBlank = <<>> THEN 0 ELSE Width(NonBlank[1])

\* The table of a file: without field names the first row tells the number of
\* columns, labelled 0, 1, ...; the tokens the first row has in excess of the
\* field names are row labels, in every row.
ColumnCount == IF DeclaredFields = <<>> THEN FirstWidth ELSE Len(DeclaredFields)

Label(j) == IF DeclaredFields = <<>> THEN j - 1 ELSE DeclaredFields[j]

RowLabels == IF FirstWidth > ColumnCount THEN FirstWidth - ColumnCount ELSE 0

\* the error of the table reader, if any
TableError ==
    IF \E i, j \in 1..Len(DeclaredFields) : i < j /\ DeclaredFields[i] = DeclaredFields[j]
    THEN Some(DuplicateNamesError)
    ELSE IF DeclaredFields = <<>> /\ NonBlank = <<>> THEN Some(EmptyDataError)
    ELSE IF \E i \in 1..Len(NonBlank) : Width(NonBlank[i]) > RowLabels + ColumnCount
         THEN Some(ParserError)
    ELSE None

\* the token of column j of a data line; a short row leaves it empty
Cell(line, j) ==
    IF RowLabels + j <= Width(line) THEN splitws(line)[RowLabels + j] ELSE <<>>

\* the tokens of the files that pandas reads as missing, and those that read
\* as numbers, each with its value
MissingToken(token) == token \in {<<>>, <<"n", "a", "n">>, <<"1", ".", "#", "I", "N", "D">>}

NumberTokens ==
    <<[text |-> <<"1">>, value |-> Number(1, 1)],
      [text |-> <<"2">>, value |-> Number(2, 1)],
      [text |-> <<"3">>, value |-> Number(3, 1)],
      [text |-> <<"2", ".", "5">>, value |-> Number(25, 10)],
      [text |-> <<"i", "n", "f">>, value |-> Infinity(1)],
      [text |-> <<"1", "e", "3">>, value |-> Number(1000, 1)],
      [text |-> <<"-", "1", "e", "-", "1">>, value |-> Number(-1, 10)]>>

IsNumberToken(token) == \E k \in 1..Len(NumberTokens) : NumberTokens[k].text = token

TokenValue(token) ==
    NumberTokens[CHOOSE k \in 1..Len(NumberTokens) : NumberTokens[k].text = token].value

\* what column j holds: numbers when all its tokens are numbers or missing,
\* else booleans when they all are "True" or missing, else strings
ColumnKind(j) ==
    IF \A i \in 1..Len(NonBlank) :
          MissingToken(Cell(NonBlank[i], j)) \/ IsNumberToken(Cell(NonBlank[i], j))
    THEN "number"
    ELSE IF \A i \in 1..Len(NonBlank) :
               MissingToken(Cell(NonBlank[i], j)) \/ Cell(NonBlank[i], j) = <<"T", "r", "u", "e">>
    THEN "bool"
    ELSE "str"

\* the value of column j in the row of a data line, and the number it is
\* coerced to
TableCell(line, j) ==
    IF MissingToken(Cell(line, j)) THEN NaN
    ELSE IF ColumnKind(j) = "number" THEN TokenValue(Cell(line, j))
    ELSE IF ColumnKind(j) = "bool" THEN Bool(TRUE)
    ELSE Text(Cell(line, j))

TableNumber(line, j) ==
    IF MissingToken(Cell(line, j)) THEN NaN
    ELSE IF IsNumberToken(Cell(line, j)) THEN TokenValue(Cell(line, j))
    ELSE IF ColumnKind(j) = "bool" THEN Number(1, 1)
    ELSE NaN

\* the data lines whose row has a value that is not missing
KeptLines ==
    SelectSeq(NonBlank, LAMBDA line :
        \E j \in 1..ColumnCount : TableCell(line, j).kind # "nan")

\* the rows that start right after the sentinel
RowsFromSentinel ==
    /\ CelOutcome.ok
    /\ CelOutcome.value.fields = DeclaredFields
    /\ Len(CelOutcome.value.data) = Len(KeptLines)
    /\ KeptLines # <<>> =>
         \A j \in 1..ColumnCount :
             CelOutcome.value.data[1][Label(j)] = TableCell(KeptLines[1], j)

\* C8: read_cel_file scans the first 800 lines at most and stops at the first
\* sentinel; it raises the missing-fields error when no fields line stands in
\* the scanned lines, the missing-end-header error when a fields line does but
\* no sentinel stands in the first 800 lines, and otherwise returns the fields
\* last declared before the sentinel and the rows that start right after it.
C8_HeaderScan ==
    CelReturned =>
        IF ~FieldsSeen THEN CelOutcome = Raised(NoFieldsError)
        ELSE IF FirstSentinel = 0 THEN CelOutcome = Raised(NoEndHeaderError)
        ELSE RowsFromSentinel

\* What read_cel_file does: as C8 says, except that a file whose header is
\* well formed is still not read when the table reader rejects its rows: a
\* field name declared twice, no field name and no data row, or a row of
\* more tokens than the first row and the field list allow.
C8_HeaderScanThenTable ==
    CelReturned =>
        IF ~FieldsSeen THEN CelOutcome = Raised(NoFieldsError)
        ELSE IF FirstSentinel = 0 THEN CelOutcome = Raised(NoEndHeaderError)
        ELSE IF TableError # None THEN CelOutcome = Raised(Only(TableError))
        ELSE RowsFromSentinel

\* the sentinel is the 800th line, a second fields line follows it: the file
\* is read, with the first declaration's fields and the second as a data row
C8_Witness ==
    /\ CelReturned
    /\ FirstSentinel = 800
    /\ cel_lines[799] = FieldsLine
    /\ cel_lines[801] = LateFieldsLine
    /\ CelOutcome.ok
    /\ CelOutcome.value.fields = <<TIME, POS_X>>
    /\ Len(CelOutcome.value.data) = 3
    /\ CelOutcome.value.data[1][TIME] = Text(LateFieldsLine)

\* the header is well formed, a later row has more tokens than the first:
\* the file is not read
C8_RejectedWitness ==
    /\ CelReturned
    /\ cel_lines = <<<<"%", " ", "F", "i", "e", "l", "d", "s", ":", " ", "t", "i", "m", "e">>, ENDHEADER, <<"1">>, <<"1", " ", "2">>>>
    /\ CelOutcome = Raised(ParserError)

\* the first row has a token more than the field list: the time is the
\* second token of each row
C8_RowLabelWitness ==
    /\ CelReturned
    /\ cel_lines = <<<<"%", " ", "F", "i", "e", "l", "d", "s", ":", " ", "t", "i", "m", "e">>, ENDHEADER, <<"1", " ", "2">>, <<"x">>>>
    /\ CelOutcome.ok
    /\ spike_times(CelOutcome.value) = <<Number(2, 1)>>

\* C9: a token that does not coerce to a number is missing, and a row whose
\* values are all missing, a row made only of non-numeric tokens included,
\* is dropped: every row of the table has a value that coerces to a number.
C9_NonNumericRowsDropped ==
    (CelReturned /\ CelOutcome.ok) =>
        \A k \in 1..Len(CelOutcome.value.data) :
            \E f \in DOMAIN CelOutcome.value.data[k] :
                ~isnan(to_numeric(CelOutcome.value.data[k][f]))

\* The rows read_cel_file keeps: the table holds, in file order, the rows of
\* the non-blank data lines that have a value other than a missing one, a
\* string that is no number being a value; such a string is missing (NaN)
\* only in the column coerced by pd.to_numeric.
C9_RowsDroppedWhenAllMissing ==
    (CelReturned /\ CelOutcome.ok) =>
        /\ Len(CelOutcome.value.data) = Len(KeptLines)
        /\ \A k \in 1..Len(KeptLines) : \A j \in 1..ColumnCount :
             /\ CelOutcome.value.data[k][Label(j)] = TableCell(KeptLines[k], j)
             /\ Column(CelOutcome.value, Label(j))[k] = TableNumber(KeptLines[k], j)

\* the rows "x" and "nan": the first is kept, with a missing time, the second
\* is dropped
C9_KeptRowWitness ==
    /\ CelReturned
    /\ CelOutcome.ok
    /\ DataLines = <<<<"x">>, <<"n", "a", "n">>>>
    /\ Len(CelOutcome.value.data) = 1
    /\ CelOutcome.value.data[1][TIME] = Text(<<"x">>)
    /\ spike_times(CelOutcome.value) = <<NaN>>

\* the rows "NAN" and "2.5 x": "NAN" is no missing-value marker and no
\* number, so the time column holds strings and both rows are kept
C9_NanWordWitness ==
    /\ CelReturned
    /\ CelOutcome.ok
    /\ DataLines = <<<<"N", "A", "N">>, <<"2", ".", "5", " ", "x">>>>
    /\ Len(CelOutcome.value.data) = 2
    /\ CelOutcome.value.data[1][TIME] = Text(<<"N", "A", "N">>)
    /\ CelOutcome.value.data[2][TIME] = Text(<<"2", ".", "5">>)
    /\ spike_times(CelOutcome.value) = <<NaN, Number(25, 10)>>
    /\ Column(CelOutcome.value, POS_X) = <<NaN, NaN>>

----------------------------------------------------------------------------
(* Properties of _parse_time_str                                           *)

\* what int() makes of a component: the entry of TimeParts with its text
PartInt(text) ==
    TimeParts[CHOOSE k \in 1..Len(TimeParts) : TimeParts[k].text = text].int

Components == split(time_str, ":")

ComponentInts == [i \in 1..Len(Components) |-> PartInt(Components[i])]

ExpectedSeconds ==
    IF time_str = <<>> THEN NaN
    ELSE IF \E i \in 1..Len(Components) : ComponentInts[i] = None THEN NaN
    ELSE IF Len(Components) = 3
         THEN float(Only(ComponentInts[1]) * 3600 + Only(ComponentInts[2]) * 60
                    + Only(ComponentInts[3]))
    ELSE IF Len(Components) = 2
         THEN float(Only(ComponentInts[1]) * 60 + Only(ComponentInts[2]))
    ELSE NaN

\* C10: _parse_time_str raises nothing; it returns h*3600 + m*60 + s for
\* three integer components, m*60 + s for two, and NaN for the empty string,
\* for a component that is no integer and for any other number of components
\* ("1:02:03" gives 3723, "02:03" gives 123, "" and "ab:01" give NaN, and
\* "-16666:-39" gives the number -999999).
C10_ParseTimeStr ==
    (pc = "time_done") =>
        /\ time_result # None
        /\ Only(time_result).ok
        /\ Only(time_result).value = ExpectedSeconds
        /\ time_str = <<"1", ":", "0", "2", ":", "0", "3">> => Only(time_result).value = float(3723)
        /\ time_str = <<"0", "2", ":", "0", "3">> => Only(time_result).value = float(123)
        /\ time_str \in {<<>>, <<"a", "b", ":", "0", "1">>} => isnan(Only(time_result).value)
        /\ time_str = <<"-", "1", "6", "6", "6", "6", ":", "-", "3", "9">>
             => /\ Only(time_result).value = float(-999999)
                /\ ~isnan(Only(time_result).value)

C10_Witness ==
    /\ pc = "time_done"
    /\ time_str = <<"1", ":", "0", "2", ":", "0", "3">>
    /\ time_result = Some(Returned(float(3723)))

----------------------------------------------------------------------------
(* Properties of read_rma_file                                             *)

RmaReturned == pc = "rma_done" /\ rma_result # None

RmaOutcome == Only(rma_result)

\* bit n (0 the most significant) of the 32-bit word whose first byte stands
\* at `offset` (from 0) of the file
WordBit(offset, n) ==
    (rma_data[offset + 1 + (n \div 8)] \div (2 ^ (7 - (n % 8)))) % 2

\* the unsigned value of the bits lo..hi of that word
RECURSIVE BitsValue(_, _, _)
BitsValue(offset, lo, hi) ==
    IF lo > hi THEN 0
    ELSE 2 * BitsValue(offset, lo, hi - 1) + WordBit(offset, hi)

\* the big-endian float32 at `offset`: sign bit, 8 exponent bits, 23 fraction bits
FloatAt(offset) ==
    [sign |-> WordBit(offset, 0),
     exponent |-> BitsValue(offset, 1, 8),
     fraction |-> BitsValue(offset, 9, 31)]

\* the big-endian int32 at `offset`: bit 0 weighs -2^31
IntAt(offset) == WordBit(offset, 0) * ((-1073741824) * 2) + BitsValue(offset, 1, 31)

\* C11: read_rma_file raises the size error for every input that is not
\* 32768 bytes long and returns no map for it; for 32768 bytes it returns two
\* 64x64 matrices with rate_map[r][c] decoded from the 4 big-endian bytes at
\* offset 4*(64*r+c) and occupancy_map[r][c] from those at 16384+4*(64*r+c).
C11_RmaLayout ==
    RmaReturned =>
        IF Len(rma_data) # 32768
        THEN /\ ~RmaOutcome.ok
             /\ RmaOutcome = Raised("expected 32768 bytes")
        ELSE /\ RmaOutcome.ok
             /\ DOMAIN RmaOutcome.value.rate_map = 1..64
             /\ DOMAIN RmaOutcome.value.occupancy_map = 1..64
             /\ \A r \in 0..63 :
                  /\ DOMAIN RmaOutcome.value.rate_map[r + 1] = 1..64
                  /\ DOMAIN RmaOutcome.value.occupancy_map[r + 1] = 1..64
                  /\ \A c \in 0..63 :
                       /\ RmaOutcome.value.rate_map[r + 1][c + 1]
                            = FloatAt(4 * (64 * r + c))
                       /\ RmaOutcome.value.occupancy_map[r + 1][c + 1]
                            = IntAt(16384 + 4 * (64 * r + c))

\* a file of 32768 bytes whose maps hold a negative count and a float with
\* its sign bit set, and whose two halves decode from different bytes
C11_Witness ==
    /\ RmaReturned
    /\ Len(rma_data) = 32768
    /\ RmaOutcome.ok
    /\ \E r, c \in 1..64 : RmaOutcome.value.occupancy_map[r][c] < 0
    /\ \E r, c \in 1..64 : RmaOutcome.value.rate_map[r][c].sign = 1
    /\ rma_data[1] # rma_data[4]
    /\ rma_data[1] # rma_data[16385]
    /\ rma_data[5] # rma_data[257]

----------------------------------------------------------------------------
(* Properties of the file-name classifiers                                 *)

NameParsed == pc = "name_done" /\ name_result # None

\* the name starts with the two letters, in either case
StartsWithLetters(name, upper1, lower1, upper2, lower2) ==
    /\ Len(name) >= 2
    /\ name[1] \in {upper1, lower1}
    /\ name[2] \in {upper2, lower2}

ExpectedType(name) ==
    IF StartsWithLetters(name, "B", "b", "L", "l") THEN <<"B", "L">>
    ELSE IF StartsWithLetters(name, "E", "e", "S", "s") THEN <<"E", "S">>
    ELSE IF StartsWithLetters(name, "M", "m", "C", "c") THEN <<"M", "C">>
    ELSE <<"u", "n", "k", "n", "o", "w", "n">>

DecimalDigits == <<"0", "1", "2", "3", "4", "5", "6", "7", "8", "9">>

IsDecimalDigit(ch) == \E d \in 1..10 : DecimalDigits[d] = ch

DigitNumber(ch) == (CHOOSE d \in 1..10 : DecimalDigits[d] = ch) - 1

\* "CELL~" stands at position i of the name, in any case, before a digit
CellTagAt(name, i) ==
    /\ i + 5 <= Len(name)
    /\ name[i] \in {"C", "c"}
    /\ name[i + 1] \in {"E", "e"}
    /\ name[i + 2] \in {"L", "l"}
    /\ name[i + 3] \in {"L", "l"}
    /\ name[i + 4] = "~"
    /\ IsDecimalDigit(name[i + 5])

\* the value of the digits from position i on, after the value `sofar`
RECURSIVE DigitsFrom(_, _, _)
DigitsFrom(name, i, sofar) ==
    IF i > Len(name) \/ ~IsDecimalDigit(name[i]) THEN sofar
    ELSE DigitsFrom(name, i + 1, 10 * sofar + DigitNumber(name[i]))

ExpectedCell(name) ==
    IF \E i \in 1..Len(name) : CellTagAt(name, i)
    THEN {DigitsFrom(name, 5 + CHOOSE i \in 1..Len(name) :
                        /\ CellTagAt(name, i)
                        /\ \A j \in 1..(i - 1) : ~CellTagAt(name, j), 0)}
    ELSE {}

\* C12: whatever the case of the name, the task type is BL, ES or MC when the
\* name starts with these letters and unknown otherwise, for a binary map as
\* for a text record; the cell number is the value of the digits after the
\* first "CELL~<digits>" of the name, and absent, not 0, without one.
C12_FileNameClassifier ==
    NameParsed =>
        /\ Only(name_result).rma[1] = ExpectedType(file_name)
        /\ Only(name_result).cel = ExpectedType(file_name)
        /\ Only(name_result).rma[2] = ExpectedCell(file_name)
        /\ ExpectedCell(file_name) = {} => Only(name_result).rma[2] # {0}

\* "mccell~07.cel": MagicCarpet, cell 7
C12_Witness ==
    /\ NameParsed
    /\ file_name = <<"m", "c", "c", "e", "l", "l", "~", "0", "7", ".", "c", "e", "l">>
    /\ Only(name_result).rma = <<<<"M", "C">>, {7}>>
    /\ Only(name_result).cel = <<"M", "C">>

----------------------------------------------------------------------------
(* Properties of CelFile._parse_cluster                                    *)

HasDigit(value) == \E i \in 1..Len(value) : IsDecimalDigit(value[i])

FirstDigit(value) ==
    CHOOSE i \in 1..Len(value) :
        /\ IsDecimalDigit(value[i])
        /\ \A j \in 1..(i - 1) : ~IsDecimalDigit(value[j])

\* the cluster id written in a header map, as a set with at most one element
ExpectedCluster(header) ==
    IF <<"C", "l", "u", "s", "t", "e", "r">> \notin DOMAIN header THEN {}
    ELSE IF ~HasDigit(header[<<"C", "l", "u", "s", "t", "e", "r">>]) THEN {}
    ELSE {DigitsFrom(header[<<"C", "l", "u", "s", "t", "e", "r">>], FirstDigit(header[<<"C", "l", "u", "s", "t", "e", "r">>]), 0)}

\* C13: the cluster id of a record is the value of the first maximal run of
\* digits of its "Cluster" header value; without the key, with an empty value
\* or with a value without digit the record has no cluster id, and the file
\* is read all the same: whatever its Cluster lines, a file with a fields
\* line, a sentinel and a table the reader accepts is read.
C13_ClusterFromHeader ==
    CelReturned =>
        /\ (FieldsSeen /\ FirstSentinel # 0 /\ TableError = None) => CelOutcome.ok
        /\ CelOutcome.ok =>
             CelOutcome.value.cluster = ExpectedCluster(CelOutcome.value.header)

\* "% Cluster: 3" then "% Cluster: c4x56": the later value wins, its first
\* run of digits is 4
C13_Witness ==
    /\ CelReturned
    /\ CelOutcome.ok
    /\ cel_lines[1] = <<"%", " ", "C", "l", "u", "s", "t", "e", "r", ":", " ", "3">>
    /\ CelOutcome.value.header[<<"C", "l", "u", "s", "t", "e", "r">>] = <<"c", "4", "x", "5", "6">>
    /\ CelOutcome.value.cluster = {4}

----------------------------------------------------------------------------
(* Properties of the units of convert_session                              *)

SameKey(a, b) == a[1] = b[1] /\ RecordCluster(a[2]) = RecordCluster(b[2])

UnitOf(tc) ==
    {k \in 1..Len(units) :
        units[k].tetrode = tc[1] /\ units[k].cluster_id = RecordCluster(tc[2])}

\* C14: every unit has at least one spike time; the records without valid
\* spike time add nothing, so that a (tetrode, cluster) whose records all have
\* none gives no unit, while these records, when both their times are
\* defined, still give their epoch.
C14_UnitsNonEmpty ==
    UnitsAdded =>
        /\ \A k \in 1..Len(units) : Len(units[k].spike_times) > 0
        /\ \A tc \in Records :
             /\ (\A other \in Records : SameKey(tc, other) => ValidTimes(other[2]) = {})
                  => UnitOf(tc) = {}
             /\ \A k \in UnitOf(tc) :
                  Len(units[k].spike_times) =
                      Contributed(tc[1], RecordCluster(tc[2]), NaN)
             /\ (ValidTimes(tc[2]) = {} /\ tc \notin Untimed) =>
                  \E e \in 1..Len(epochs) : EpochTriple(epochs[e]) = epoch_key(tc[2])

\* a record of cluster 7 with the epoch 1200..1800 and no valid spike time,
\* next to a record of cluster 3: one unit, two epochs
C14_Witness ==
    /\ UnitsAdded
    /\ Len(all_cel_files) = 2
    /\ \E tc \in Records :
         /\ ValidTimes(tc[2]) = {}
         /\ Len(tc[2].data) = 1
         /\ tc[2].cluster = {7}
         /\ tc[2].start_time_sec = float(1200)
         /\ tc[2].end_time_sec = float(1800)
    /\ Len(units) = 1
    /\ units[1].cluster_id = 3
    /\ Len(epochs) = 2

====
